---------------------------- MODULE Spec2Model ----------------------------
(***************************************************************************)
(* The license verification endpoint of the Leadspree licenser, in its     *)
(* three deployed forms:                                                   *)
(*   "appwrite"  - src/functions/verify-license/index.mjs                  *)
(*   "supabase"  - src/supabase/functions/verify-license/index.ts          *)
(*   "validated" - the Supabase function of src/scripts/setup-appwrite.mjs *)
(*                 lines 473-677 (rate limit, validation, response delay)  *)
(* One warm process serves requests; a request is handled in the steps     *)
(* that its awaits cut it into.                                            *)
(***************************************************************************)
EXTENDS Integers, Sequences, FiniteSets, TLC

VARIABLES
    impl,          \* which of the three functions this process runs
    now,           \* Date.now(), in milliseconds
    rateLimitMap,  \* the module-level Map: ip -> entry
    api_keys,      \* table api_keys: id -> row
    licenses,      \* table licenses: id -> row
    software,      \* table software: id -> row
    cur,           \* the invocation being handled
    pending,       \* last_used_at updates issued and not yet settled
    log,           \* what was passed to log / console.error
    win,           \* observer: per ip, start and arrivals of its window
    nreq,          \* observer: requests received so far
    nticks,        \* observer: clock advances so far
    prev,          \* observer: the invocation that finished last
    revoked,       \* observer: the API keys revoked, and when
    fleet,         \* the instances: which one serves, the rate-limit maps of the others
    today,         \* CURRENT_DATE of the database, as the index of a day in Dates
    reseller_allocations,  \* table reseller_allocations: the row of (reseller-7, sw1)
    sessions,      \* the reseller's open dashboard sessions
    profiles,      \* table profiles: user id -> role and status
    auth_uid,      \* observer: auth.uid() of the last dashboard request
    databases,     \* the Appwrite project: the database, its collections, their attributes and indexes
    script         \* the run of the setup script: where it is, how it ended

vars == <<impl, now, rateLimitMap, api_keys, licenses, software, cur,
          pending, log, win, nreq, nticks, prev, revoked, fleet, today,
          reseller_allocations, sessions, profiles, auth_uid, databases, script>>

(***************************************************************************)
(* Bounds of the exploration.                                              *)
(***************************************************************************)
MaxRequests == 1
MaxTicks == 3
MaxBurst == 32
MaxBurstTicks == 2
MaxOther == 1

(***************************************************************************)
(* Program constants.                                                      *)
(***************************************************************************)
RATE_LIMIT_WINDOW_MS == 60000
MAX_REQUESTS_PER_WINDOW == 30
MAX_API_KEY_LENGTH == 128
MAX_LICENSE_KEY_LENGTH == 64
MAX_SOFTWARE_ID_LENGTH == 64
MIN_DELAY_MS == 200

Impls == {"appwrite", "supabase", "validated"}

corsHeaders == {"Access-Control-Allow-Origin", "Access-Control-Allow-Headers"}

jsonHeaders == corsHeaders \cup {"Content-Type"}

(***************************************************************************)
(* Strings are sequences of one-character strings; a JSON value is a       *)
(* tagged record.                                                          *)
(***************************************************************************)
Upper == {"A","B","C","D","E","F","G","H","I","J","K","L","M",
          "N","O","P","Q","R","S","T","U","V","W","X","Y","Z"}

Lower == {"a","b","c","d","e","f","g","h","i","j","k","l","m",
          "n","o","p","q","r","s","t","u","v","w","x","y","z"}

Digits == {"0","1","2","3","4","5","6","7","8","9"}

Rep(c, n) == [i \in 1..n |-> c]

Undef == [t |-> "undefined"]

JNull == [t |-> "null"]

JStr(s) == [t |-> "string", v |-> s]

JNum(n) == [t |-> "number", v |-> n]

JObj(a, l, s) == [t |-> "object", api_key |-> a, license_key |-> l, software_id |-> s]

\* JavaScript truthiness of a value: !v is the negation of this.
Truthy(v) ==
    CASE v.t = "undefined" -> FALSE
      [] v.t = "null" -> FALSE
      [] v.t = "string" -> Len(v.v) > 0
      [] v.t = "number" -> v.v # 0
      [] OTHER -> TRUE

\* The decimal digits of a natural number: String(n) for the numbers used.
RECURSIVE DigitsOf(_)
DigitsOf(n) ==
    LET d == CASE n % 10 = 0 -> "0" [] n % 10 = 1 -> "1" [] n % 10 = 2 -> "2"
               [] n % 10 = 3 -> "3" [] n % 10 = 4 -> "4" [] n % 10 = 5 -> "5"
               [] n % 10 = 6 -> "6" [] n % 10 = 7 -> "7" [] n % 10 = 8 -> "8"
               [] OTHER -> "9"
    IN  IF n < 10 THEN <<d>> ELSE Append(DigitsOf(n \div 10), d)

\* RegExp.prototype.test coerces its argument with String().
ToStr(v) ==
    CASE v.t = "string" -> v.v
      [] v.t = "number" -> DigitsOf(v.v)
      [] v.t = "null" -> <<"n","u","l","l">>
      [] OTHER -> <<"u","n","d","e","f","i","n","e","d">>

\* v.length: defined for strings only; undefined > n is false.
LongerThan(v, n) == v.t = "string" /\ Len(v.v) > n

\* keyPattern with the underscore let in: /^[A-Za-z0-9_\-]+$/, that is /^[\w-]+$/.
keyPattern_word(v) ==
    LET s == ToStr(v)
    IN  /\ Len(s) >= 1
        /\ \A i \in 1..Len(s) : s[i] \in Upper \cup Lower \cup Digits \cup {"-", "_"}

\* /^[A-Za-z0-9\-]+$/.test(v)
keyPattern(v) ==
    LET s == ToStr(v)
    IN  /\ Len(s) >= 1
        /\ \A i \in 1..Len(s) : s[i] \in Upper \cup Lower \cup Digits \cup {"-"}

\* The result of a validation: {valid: true} or {valid: false, message}.
Ok == [valid |-> TRUE, message |-> ""]

Bad(m) == [valid |-> FALSE, message |-> m]

\* validateInput without the check that license_key is present.
validateInput_noLicenseCheck(data) ==
    IF data.t # "object" THEN Bad("Invalid body")
    ELSE IF ~Truthy(data.api_key) THEN Bad("api_key missing")
    ELSE IF LongerThan(data.api_key, MAX_API_KEY_LENGTH) THEN Bad("api_key too long")
    ELSE IF LongerThan(data.license_key, MAX_LICENSE_KEY_LENGTH)
        THEN Bad("license_key too long")
    ELSE IF ~keyPattern(data.api_key) \/ ~keyPattern(data.license_key)
        THEN Bad("Invalid key format")
    ELSE Ok

\* validateInput that lets a body that is not an object through.
validateInput_noTypeCheck(data) ==
    IF data.t # "object" THEN Ok
    ELSE IF ~Truthy(data.api_key) THEN Bad("api_key missing")
    ELSE IF ~Truthy(data.license_key) THEN Bad("license_key missing")
    ELSE IF LongerThan(data.api_key, MAX_API_KEY_LENGTH) THEN Bad("api_key too long")
    ELSE IF LongerThan(data.license_key, MAX_LICENSE_KEY_LENGTH)
        THEN Bad("license_key too long")
    ELSE IF ~keyPattern(data.api_key) \/ ~keyPattern(data.license_key)
        THEN Bad("Invalid key format")
    ELSE Ok

\* index.mjs validateInput; data is the parsed body.
validateInput(data) ==
    IF data.t # "object" THEN Bad("Invalid body")
    ELSE IF ~Truthy(data.api_key) THEN Bad("api_key missing")
    ELSE IF ~Truthy(data.license_key) THEN Bad("license_key missing")
    ELSE IF LongerThan(data.api_key, MAX_API_KEY_LENGTH) THEN Bad("api_key too long")
    ELSE IF LongerThan(data.license_key, MAX_LICENSE_KEY_LENGTH)
        THEN Bad("license_key too long")
    ELSE IF ~keyPattern(data.api_key) \/ ~keyPattern(data.license_key)
        THEN Bad("Invalid key format")
    ELSE Ok

\* setup-appwrite.mjs validateInput (the "validated" function). It reads
\* data.api_key, which throws a TypeError when the body parsed to null.
Field(data, f) == IF data.t = "object" THEN data[f] ELSE Undef

validateInputThrows(data) == data.t = "null"

validateInputVd(data) ==
    LET a == Field(data, "api_key")
        l == Field(data, "license_key")
        s == Field(data, "software_id")
    IN  IF ~Truthy(a) \/ a.t # "string" THEN Bad("Missing or invalid api_key")
        ELSE IF ~Truthy(l) \/ l.t # "string" THEN Bad("Missing or invalid license_key")
        ELSE IF Len(a.v) > MAX_API_KEY_LENGTH THEN Bad("api_key exceeds maximum length")
        ELSE IF Len(l.v) > MAX_LICENSE_KEY_LENGTH
            THEN Bad("license_key exceeds maximum length")
        ELSE IF Truthy(s) /\ (s.t # "string" \/ LongerThan(s, MAX_SOFTWARE_ID_LENGTH))
            THEN Bad("Invalid software_id")
        ELSE IF ~keyPattern(a) \/ ~keyPattern(l) THEN Bad("Invalid key format")
        ELSE Ok

(***************************************************************************)
(* The request body. The text of a body is represented by the value it     *)
(* parses to, or marked as text that is not JSON; the Appwrite runtime may *)
(* also hand the handler a body that is already an object.                 *)
(***************************************************************************)
Text(v) == [raw |-> "string", json |-> TRUE, v |-> v]

NotJson == [raw |-> "string", json |-> FALSE, v |-> Undef]

Parsed(v) == [raw |-> "object", json |-> TRUE, v |-> v]

\* JSON.parse / req.json(): throws on text that is not JSON.
JSONparse(b) == [threw |-> ~b.json, value |-> b.v]

\* index.mjs line 75: typeof req.body === 'string' ? JSON.parse(req.body) : req.body
parseBody(b) == IF b.raw = "string" THEN JSONparse(b) ELSE [threw |-> FALSE, value |-> b.v]

(***************************************************************************)
(* The client identity: the first entry of x-forwarded-for, trimmed, else  *)
(* cf-connecting-ip, else (Appwrite only) x-appwrite-client-ip, else       *)
(* "unknown". A header that is not sent is the empty sequence here, which  *)
(* is falsy like undefined.                                                *)
(***************************************************************************)
RECURSIVE FirstEntry(_)
FirstEntry(s) ==
    IF s = <<>> \/ Head(s) = "," THEN <<>> ELSE <<Head(s)>> \o FirstEntry(Tail(s))

RECURSIVE TrimLeft(_)
TrimLeft(s) == IF s # <<>> /\ Head(s) = " " THEN TrimLeft(Tail(s)) ELSE s

RECURSIVE TrimRight(_)
TrimRight(s) ==
    IF s # <<>> /\ s[Len(s)] = " " THEN TrimRight(SubSeq(s, 1, Len(s) - 1)) ELSE s

Trim(s) == TrimRight(TrimLeft(s))

UNKNOWN == <<"u","n","k","n","o","w","n">>

Or(a, b) == IF a # <<>> THEN a ELSE b

clientIp(h) ==
    Or(Trim(FirstEntry(h.xff)), Or(h.cf, Or(h.aw, UNKNOWN)))

clientIpVd(h) ==
    Or(Trim(FirstEntry(h.xff)), Or(h.cf, UNKNOWN))

(***************************************************************************)
(* The rate limiter. The Map is a function whose domain is the set of ips  *)
(* that have an entry; the result is the answer and the Map afterwards.    *)
(***************************************************************************)
MapSet(m, k, v) == [x \in DOMAIN m \cup {k} |-> IF x = k THEN v ELSE m[x]]

\* isRateLimited with a sliding window: every request counted in a window
\* moves the end of the window.
isRateLimited_sliding(map, ip, t) ==
    IF ip \notin DOMAIN map \/ t > map[ip].resetTime
    THEN [limited |-> FALSE,
          map |-> MapSet(map, ip, [count |-> 1, resetTime |-> t + RATE_LIMIT_WINDOW_MS])]
    ELSE [limited |-> map[ip].count + 1 > MAX_REQUESTS_PER_WINDOW,
          map |-> MapSet(map, ip, [count |-> map[ip].count + 1,
                                   resetTime |-> t + RATE_LIMIT_WINDOW_MS])]

\* isRateLimited with the comparison of the count off by one (>= for >).
isRateLimited_offByOne(map, ip, t) ==
    IF ip \notin DOMAIN map \/ t > map[ip].resetTime
    THEN [limited |-> FALSE,
          map |-> MapSet(map, ip, [count |-> 1, resetTime |-> t + RATE_LIMIT_WINDOW_MS])]
    ELSE [limited |-> map[ip].count + 1 >= MAX_REQUESTS_PER_WINDOW,
          map |-> MapSet(map, ip, [map[ip] EXCEPT !.count = @ + 1])]

isRateLimited(map, ip, t) ==
    IF ip \notin DOMAIN map \/ t > map[ip].resetTime
    THEN [limited |-> FALSE,
          map |-> MapSet(map, ip, [count |-> 1, resetTime |-> t + RATE_LIMIT_WINDOW_MS])]
    ELSE [limited |-> map[ip].count + 1 > MAX_REQUESTS_PER_WINDOW,
          map |-> MapSet(map, ip, [map[ip] EXCEPT !.count = @ + 1])]

\* delayResponse: the time at which the handler goes on.
delayResponse(start, t) ==
    LET elapsed == t - start
    IN  IF elapsed < MIN_DELAY_MS THEN t + (MIN_DELAY_MS - elapsed) ELSE t

(***************************************************************************)
(* The database. Keys and ids are strings; the other columns are opaque.   *)
(* A null column is the string "null".                                     *)
(***************************************************************************)
AK_ACTIVE == <<"A","K","-","1">>

AK_INACTIVE == <<"A","K","-","2">>

AK_UNKNOWN == <<"A","K","-","9">>

LK_ACTIVE == <<"L","S","-","A","B","-","1">>

LK_EXPIRED == <<"L","S","-","A","B","-","2">>

LK_UNKNOWN == <<"L","S","-","A","B","-","9">>

SW_ONE == <<"s","w","1">>

SW_TWO == <<"s","w","2">>

InitApiKeys ==
    [id \in {"k1", "k2"} |->
        [id |-> id,
         key_string |-> IF id = "k1" THEN AK_ACTIVE ELSE AK_INACTIVE,
         is_active |-> id = "k1",
         last_used_at |-> -1]]

InitLicenses ==
    [id \in {"l1", "l2"} |->
        [id |-> id,
         license_key |-> IF id = "l1" THEN LK_ACTIVE ELSE LK_EXPIRED,
         software_id |-> SW_ONE,
         buyer_name |-> IF id = "l1" THEN "Ann" ELSE "Bob",
         buyer_email |-> IF id = "l1" THEN "ann@x" ELSE "bob@x",
         buyer_phone |-> IF id = "l1" THEN "+1-555-01" ELSE "+1-555-02",
         amount |-> IF id = "l1" THEN "4900" ELSE "9900",
         pay_mode |-> IF id = "l1" THEN "upi" ELSE "card",
         reseller_id |-> "reseller-7",
         created_by |-> "admin-1",
         is_active |-> id = "l1",
         start_date |-> IF id = "l1" THEN "2026-01-01" ELSE "2024-01-01",
         end_date |-> IF id = "l1" THEN "null" ELSE "2025-01-01",
         created_at |-> IF id = "l1" THEN "2026-01-01T00" ELSE "2024-01-01T00"]]

InitSoftware ==
    [id \in {SW_ONE, SW_TWO} |->
        [id |-> id,
         name |-> IF id = SW_ONE THEN "Mailer" ELSE "Scraper",
         slug |-> IF id = SW_ONE THEN "mailer" ELSE "scraper",
         version |-> "1.0",
         type |-> "desktop"]]

\* Query.equal / .eq on a text column: the value matches a stored string.
Eq(v, stored) == v.t = "string" /\ v.v = stored

\* ActiveApiKeys without the is_active filter.
ActiveApiKeys_anyStatus(api_key) ==
    {id \in DOMAIN api_keys : Eq(api_key, api_keys[id].key_string)}

\* ActiveApiKeys answered from the rows as they were when the process started.
ActiveApiKeys_cached(api_key) ==
    {id \in DOMAIN InitApiKeys :
        Eq(api_key, InitApiKeys[id].key_string) /\ InitApiKeys[id].is_active}

\* api_keys where key_string = api_key and is_active = true
ActiveApiKeys(api_key) ==
    {id \in DOMAIN api_keys :
        Eq(api_key, api_keys[id].key_string) /\ api_keys[id].is_active}

\* ActiveLicenses without the is_active filter.
ActiveLicenses_anyStatus(license_key, software_id) ==
    {id \in DOMAIN licenses :
        /\ Eq(license_key, licenses[id].license_key)
        /\ (Truthy(software_id) => Eq(software_id, licenses[id].software_id))}

\* ActiveLicenses that leaves the software_id of the request aside.
ActiveLicenses_noSoftware(license_key, software_id) ==
    {id \in DOMAIN licenses :
        Eq(license_key, licenses[id].license_key) /\ licenses[id].is_active}

\* licenses where license_key = license_key and is_active = true, and
\* software_id = software_id when the request carries a truthy one
ActiveLicenses(license_key, software_id) ==
    {id \in DOMAIN licenses :
        /\ Eq(license_key, licenses[id].license_key)
        /\ licenses[id].is_active
        /\ (Truthy(software_id) => Eq(software_id, licenses[id].software_id))}

(***************************************************************************)
(* Responses. A JSON body is a record; the body of a preflight answer is   *)
(* null.                                                                   *)
(***************************************************************************)
Resp(status, body, headers) == [status |-> status, body |-> body, headers |-> headers]

Msg(valid, message) == [valid |-> valid, message |-> message]

NoResp == Resp(0, JNull, {})

\* index.mjs lines 123 and 128-139
softwareSummary(s) == [id |-> s.id, name |-> s.name, version |-> s.version, type |-> s.type]

\* licensePayload that answers with the start date as the end date.
licensePayload_swapped(license_key, row, sw) ==
    [license_key |-> license_key,
     software |-> sw,
     buyer_name |-> row.buyer_name,
     buyer_email |-> row.buyer_email,
     start_date |-> row.start_date,
     end_date |-> row.start_date,
     created_at |-> row.created_at]

licensePayload(license_key, row, sw) ==
    [license_key |-> license_key,
     software |-> sw,
     buyer_name |-> row.buyer_name,
     buyer_email |-> row.buyer_email,
     start_date |-> row.start_date,
     end_date |-> row.end_date,
     created_at |-> row.created_at]

\* licensePayloadSb that passes on a column of the row it selected with '*'.
licensePayloadSb_leaky(row, sw) ==
    [license_key |-> row.license_key,
     software |-> softwareSummary(sw),
     buyer_name |-> row.buyer_name,
     buyer_email |-> row.buyer_email,
     buyer_phone |-> row.buyer_phone,
     is_active |-> row.is_active,
     start_date |-> row.start_date,
     end_date |-> row.end_date,
     created_at |-> row.created_at]

\* index.ts lines 88-102
licensePayloadSb(row, sw) ==
    [license_key |-> row.license_key,
     software |-> softwareSummary(sw),
     buyer_name |-> row.buyer_name,
     buyer_email |-> row.buyer_email,
     is_active |-> row.is_active,
     start_date |-> row.start_date,
     end_date |-> row.end_date,
     created_at |-> row.created_at]

\* setup-appwrite.mjs lines 654-664
licensePayloadVd(row, sw) ==
    [license_key |-> row.license_key,
     software |-> softwareSummary(sw),
     buyer_name |-> row.buyer_name,
     buyer_email |-> row.buyer_email,
     is_active |-> row.is_active,
     status |-> IF row.is_active THEN "Active" ELSE "Inactive",
     start_date |-> row.start_date,
     end_date |-> row.end_date,
     created_at |-> row.created_at]

Valid(message, payload) == [valid |-> TRUE, message |-> message, license |-> payload]

INTERNAL == Msg(FALSE, "Internal server error")

(***************************************************************************)
(* The requests explored.                                                  *)
(***************************************************************************)
IP_SEVEN == <<"7">>

HdrFwd == [xff |-> <<" ","7"," ",",","8">>, cf |-> <<>>, aw |-> <<>>]

HdrCf == [xff |-> <<>>, cf |-> IP_SEVEN, aw |-> <<>>]

HdrNone == [xff |-> <<>>, cf |-> <<>>, aw |-> <<>>]

HdrAw == [xff |-> <<" ",",","8">>, cf |-> <<>>, aw |-> <<"9">>]

ApiKeyInputs ==
    {Undef, JNull, JStr(<<>>), JStr(AK_ACTIVE), JStr(AK_INACTIVE), JStr(AK_UNKNOWN),
     JStr(Rep("a", MAX_API_KEY_LENGTH)), JStr(Rep("a", MAX_API_KEY_LENGTH + 1)),
     JStr(<<"A","K","_","1">>), JStr(<<"A","K","-","1"," ">>), JNum(41)}

LicenseKeyInputs ==
    {Undef, JNull, JStr(<<>>), JStr(LK_ACTIVE), JStr(LK_EXPIRED), JStr(LK_UNKNOWN),
     JStr(Rep("a", MAX_LICENSE_KEY_LENGTH)), JStr(Rep("a", MAX_LICENSE_KEY_LENGTH + 1)),
     JStr(<<"L","S","-","A","B","-","1","!">>)}

SoftwareIdInputs == {Undef, JStr(<<>>), JStr(SW_ONE), JStr(SW_TWO)}

Objects ==
    {JObj(a, JStr(LK_ACTIVE), Undef) : a \in ApiKeyInputs}
    \cup {JObj(JStr(AK_ACTIVE), l, Undef) : l \in LicenseKeyInputs}
    \cup {JObj(a, l, Undef) : a \in {JStr(AK_INACTIVE), JStr(AK_UNKNOWN)},
                              l \in {JStr(LK_ACTIVE), JStr(LK_EXPIRED), JStr(LK_UNKNOWN)}}
    \cup {JObj(JStr(AK_ACTIVE), l, s) : l \in {JStr(LK_ACTIVE), JStr(LK_EXPIRED)},
                                        s \in SoftwareIdInputs}

Bodies ==
    {Text(o) : o \in Objects}
    \cup {NotJson, Text(JNull), Text(JNum(5)), Text(JStr(<<"a","b","c">>)),
          Parsed(Undef), Parsed(JObj(JStr(AK_ACTIVE), JStr(LK_ACTIVE), Undef))}

Req(method, headers, body) == [method |-> method, headers |-> headers, body |-> body]

Requests ==
    {Req("POST", HdrFwd, b) : b \in Bodies}
    \cup {Req("POST", h, Text(JObj(JStr(AK_ACTIVE), JStr(LK_ACTIVE), Undef))) :
            h \in {HdrCf, HdrNone, HdrAw}}
    \cup {Req("OPTIONS", HdrFwd, b) :
            b \in {NotJson, Text(JObj(JStr(AK_ACTIVE), JStr(LK_ACTIVE), Undef))}}

BurstRequests ==
    {Req("POST", h, Text(JObj(Undef, Undef, Undef))) : h \in {HdrFwd, HdrCf, HdrNone}}

\* What a failed query reports: the detail of the failure.
Errors == {"connect ECONNREFUSED 10.0.0.5:5432"}

(***************************************************************************)
(* The invocation being handled. pc is the await the handler is           *)
(* suspended at; reads and writes are the tables it has queried and the    *)
(* updates it has issued; seq is the request's position among the          *)
(* requests of its ip that arrived in the same window; threw is the detail *)
(* of the exception that reached the catch, fault tells that a query of    *)
(* api_keys or licenses failed, and swFailed that the software row of the  *)
(* license could not be had.                                               *)
(***************************************************************************)
Idle ==
    [pc |-> "idle", method |-> "", headers |-> HdrNone, raw |-> NotJson,
     ip |-> <<>>, startTs |-> 0, data |-> Undef, apiKeyRow |-> "", license |-> "",
     issuedAt |-> -1, out |-> NoResp, wakeAt |-> 0, resp |-> NoResp, sentAt |-> -1,
     seq |-> 0, reads |-> {}, writes |-> {}, threw |-> "", fault |-> FALSE,
     swFailed |-> FALSE]

\* res.send / return new Response
Sent(c, r) == [c EXCEPT !.pc = "done", !.resp = r, !.sentAt = now]

\* await delayResponse(startTs); then send r
Delayed(c, r) ==
    LET w == delayResponse(c.startTs, now)
    IN  IF now < w THEN [c EXCEPT !.pc = "delay", !.out = r, !.wakeAt = w]
        ELSE Sent(c, r)

\* The observer's window of an ip: it starts at the first request and at
\* the first request that arrives more than the window length after its start.
Arrival(w, ip, t) ==
    IF ip \notin DOMAIN w \/ t > w[ip].start + 60000
    THEN MapSet(w, ip, [start |-> t, n |-> 1])
    ELSE MapSet(w, ip, [w[ip] EXCEPT !.n = @ + 1])

Free == cur.pc = "idle"

\* everything but the function that is deployed
InitData ==
    /\ now = 0
    /\ rateLimitMap = <<>>
    /\ api_keys = InitApiKeys
    /\ licenses = InitLicenses
    /\ software = InitSoftware
    /\ cur = Idle
    /\ pending = {}
    /\ log = {}
    /\ win = <<>>
    /\ nreq = 0
    /\ nticks = 0
    /\ prev = Idle
    /\ revoked = <<>>
    /\ fleet = [inst |-> "a", parked |-> <<>>, cold |-> {}]
    /\ today = 2
    /\ reseller_allocations = [reseller_id |-> "reseller-7", software_id |-> SW_ONE, license_limit |-> 3]
    /\ sessions = [s \in {"tab1", "tab2"} |-> [pc |-> "idle", license_limit |-> 3]]
    /\ profiles = [u \in {"admin-1", "reseller-7"} |-> [role |-> IF u = "admin-1" THEN "admin" ELSE "reseller", status |-> "active"]]
    /\ auth_uid = "admin-1"
    /\ databases = [exists |-> FALSE, collections |-> <<>>]
    /\ script = [pc |-> "idle", file |-> "", c |-> 1, a |-> 1, x |-> 1, runs |-> 0, code |-> 0]

Init == impl \in Impls /\ InitData

(***************************************************************************)
(* functions/verify-license/index.mjs                                      *)
(***************************************************************************)
\* the handler with the body parsed and validated before the limiter is
\* asked: a request that ends in 400 is not counted.
AwReceive_validatesFirst(r, max) ==
    /\ impl = "appwrite"
    /\ Free
    /\ nreq < max
    /\ nreq' = nreq + 1
    /\ LET c0 == [Idle EXCEPT !.method = r.method, !.headers = r.headers,
                              !.raw = r.body, !.startTs = now]
           ip == clientIp(r.headers)
           rl == isRateLimited(rateLimitMap, ip, now)
           w  == Arrival(win, ip, now)
           c1 == [c0 EXCEPT !.ip = ip, !.seq = w[ip].n]
           p  == parseBody(r.body)
           v  == validateInput(p.value)
       IN  IF r.method = "OPTIONS"
           THEN /\ cur' = Sent(c0, Resp(204, JNull, corsHeaders))
                /\ UNCHANGED <<rateLimitMap, win>>
           ELSE /\ win' = w
                /\ IF p.threw
                   THEN /\ cur' = Sent(c1, Resp(400, Msg(FALSE, "Invalid JSON"), corsHeaders))
                        /\ UNCHANGED rateLimitMap
                   ELSE IF ~v.valid
                   THEN /\ cur' = Sent(c1, Resp(400, Msg(FALSE, v.message), corsHeaders))
                        /\ UNCHANGED rateLimitMap
                   ELSE /\ rateLimitMap' = rl.map
                        /\ cur' =
                             IF rl.limited
                             THEN Delayed(c1, Resp(429, Msg(FALSE, "Rate limit exceeded"),
                                                   jsonHeaders))
                             ELSE [c1 EXCEPT !.pc = "apikey", !.data = p.value]
    /\ UNCHANGED <<impl, script, databases, auth_uid, profiles, sessions, reseller_allocations,
                   today, fleet, revoked, prev, now, api_keys, licenses, software, pending, log, nticks>>

\* lines 53-86: up to the first await
AwReceive(r, max) ==
    /\ impl = "appwrite"
    /\ Free
    /\ nreq < max
    /\ nreq' = nreq + 1
    /\ LET c0 == [Idle EXCEPT !.method = r.method, !.headers = r.headers,
                              !.raw = r.body, !.startTs = now]
           ip == clientIp(r.headers)
           rl == isRateLimited(rateLimitMap, ip, now)
           w  == Arrival(win, ip, now)
           c1 == [c0 EXCEPT !.ip = ip, !.seq = w[ip].n]
           p  == parseBody(r.body)
           v  == validateInput(p.value)
       IN  IF r.method = "OPTIONS"
           THEN /\ cur' = Sent(c0, Resp(204, JNull, corsHeaders))
                /\ UNCHANGED <<rateLimitMap, win>>
           ELSE /\ rateLimitMap' = rl.map
                /\ win' = w
                /\ cur' =
                     IF rl.limited
                     THEN Delayed(c1, Resp(429, Msg(FALSE, "Rate limit exceeded"), jsonHeaders))
                     ELSE IF p.threw
                     THEN Sent(c1, Resp(400, Msg(FALSE, "Invalid JSON"), corsHeaders))
                     ELSE IF ~v.valid
                     THEN Sent(c1, Resp(400, Msg(FALSE, v.message), corsHeaders))
                     ELSE [c1 EXCEPT !.pc = "apikey", !.data = p.value]
    /\ UNCHANGED <<impl, script, databases, auth_uid, profiles, sessions, reseller_allocations,
                   today, fleet, revoked, prev, now, api_keys, licenses, software, pending, log, nticks>>

\* the catch answering with the message of the error it caught.
AwCaught_leaky(c, e) == Delayed([c EXCEPT !.threw = e], Resp(500, Msg(FALSE, e), corsHeaders))

\* the catch of lines 145-149
AwCaught(c, e) == Delayed([c EXCEPT !.threw = e], Resp(500, INTERNAL, corsHeaders))

\* lines 88-102: the api key lookup returns or throws
AwApiKeyLookup ==
    /\ impl = "appwrite"
    /\ cur.pc = "apikey"
    /\ LET c == [cur EXCEPT !.reads = @ \cup {"api_keys"}]
           rows == ActiveApiKeys(Field(cur.data, "api_key"))
       IN  \E o \in {"ok"} \cup Errors :
             IF o \in Errors
             THEN /\ log' = log \cup {o}
                  /\ cur' = AwCaught([c EXCEPT !.fault = TRUE], o)
                  /\ UNCHANGED pending
             ELSE IF rows = {}
             THEN /\ cur' = Delayed(c, Resp(401, Msg(FALSE, "Invalid API key"), corsHeaders))
                  /\ UNCHANGED <<pending, log>>
             ELSE LET id == CHOOSE k \in rows : TRUE
                  IN  /\ pending' = pending \cup {[id |-> id, at |-> now]}
                      /\ cur' = [c EXCEPT !.pc = "license", !.apiKeyRow = id,
                                          !.writes = @ \cup {"api_keys"}]
                      /\ UNCHANGED log
    /\ UNCHANGED <<impl, script, databases, auth_uid, profiles, sessions, reseller_allocations,
                   today, fleet, revoked, prev, now, rateLimitMap, api_keys, licenses, software, win, nreq, nticks>>

\* the license lookup that tells an expired key from one that is not there.
AwLicenseLookup_tellsExpired ==
    /\ impl = "appwrite"
    /\ cur.pc = "license"
    /\ LET c == [cur EXCEPT !.reads = @ \cup {"licenses"}]
           rows == ActiveLicenses(Field(cur.data, "license_key"), Field(cur.data, "software_id"))
           any == ActiveLicenses_anyStatus(Field(cur.data, "license_key"),
                                           Field(cur.data, "software_id"))
       IN  \E o \in {"ok"} \cup Errors :
             IF o \in Errors
             THEN /\ log' = log \cup {o}
                  /\ cur' = AwCaught([c EXCEPT !.fault = TRUE], o)
             ELSE /\ UNCHANGED log
                  /\ cur' =
                       IF rows = {}
                       THEN Delayed(c, Resp(200,
                                Msg(FALSE, IF any = {} THEN "License invalid or inactive"
                                                       ELSE "License expired"),
                                corsHeaders))
                       ELSE [c EXCEPT !.pc = "software",
                                      !.license = CHOOSE k \in rows : TRUE]
    /\ UNCHANGED <<impl, script, databases, auth_uid, profiles, sessions, reseller_allocations,
                   today, fleet, revoked, prev, now, rateLimitMap, api_keys, licenses, software, pending,
                   win, nreq, nticks>>

\* lines 104-118: the license lookup returns or throws
AwLicenseLookup ==
    /\ impl = "appwrite"
    /\ cur.pc = "license"
    /\ LET c == [cur EXCEPT !.reads = @ \cup {"licenses"}]
           rows == ActiveLicenses(Field(cur.data, "license_key"), Field(cur.data, "software_id"))
       IN  \E o \in {"ok"} \cup Errors :
             IF o \in Errors
             THEN /\ log' = log \cup {o}
                  /\ cur' = AwCaught([c EXCEPT !.fault = TRUE], o)
             ELSE /\ UNCHANGED log
                  /\ cur' =
                       IF rows = {}
                       THEN Delayed(c, Resp(200, Msg(FALSE, "License invalid or inactive"),
                                            corsHeaders))
                       ELSE [c EXCEPT !.pc = "software",
                                      !.license = CHOOSE k \in rows : TRUE]
    /\ UNCHANGED <<impl, script, databases, auth_uid, profiles, sessions, reseller_allocations,
                   today, fleet, revoked, prev, now, rateLimitMap, api_keys, licenses, software, pending,
                   win, nreq, nticks>>

\* the software fetch with its try/catch taken away: a failure reaches the
\* catch of the handler.
AwSoftwareFetch_uncaught ==
    /\ impl = "appwrite"
    /\ cur.pc = "software"
    /\ LET c == [cur EXCEPT !.reads = @ \cup {"software"}]
           row == licenses[cur.license]
       IN  \E o \in {"ok"} \cup Errors :
             IF o = "ok" /\ row.software_id \in DOMAIN software
             THEN /\ UNCHANGED log
                  /\ cur' = Delayed(c, Resp(200,
                                   Valid("License valid",
                                         licensePayload(cur.data.license_key.v, row,
                                             softwareSummary(software[row.software_id]))),
                                   jsonHeaders))
             ELSE /\ log' = log \cup Errors
                  /\ cur' = AwCaught([c EXCEPT !.swFailed = TRUE],
                                     CHOOSE e \in Errors : TRUE)
    /\ UNCHANGED <<impl, script, databases, auth_uid, profiles, sessions, reseller_allocations,
                   today, fleet, revoked, prev, now, rateLimitMap, api_keys, licenses, software, pending,
                   win, nreq, nticks>>

\* lines 120-143: the software fetch returns or throws (getDocument throws
\* for a document that is not there), and the answer
AwSoftwareFetch ==
    /\ impl = "appwrite"
    /\ cur.pc = "software"
    /\ LET row == licenses[cur.license]
       IN  \E o \in {"ok"} \cup Errors :
             LET got == o = "ok" /\ row.software_id \in DOMAIN software
                 c == [cur EXCEPT !.reads = @ \cup {"software"}, !.swFailed = ~got]
                 sw == IF got THEN softwareSummary(software[row.software_id]) ELSE JNull
             IN  cur' = Delayed(c, Resp(200,
                                   Valid("License valid",
                                         licensePayload(cur.data.license_key.v, row, sw)),
                                   jsonHeaders))
    /\ UNCHANGED <<impl, script, databases, auth_uid, profiles, sessions, reseller_allocations,
                   today, fleet, revoked, prev, now, rateLimitMap, api_keys, licenses, software, pending, log,
                   win, nreq, nticks>>

\* the timer of delayResponse fires
TimerFires ==
    /\ cur.pc = "delay"
    /\ now >= cur.wakeAt
    /\ cur' = Sent(cur, cur.out)
    /\ UNCHANGED <<impl, script, databases, auth_uid, profiles, sessions, reseller_allocations,
                   today, fleet, revoked, prev, now, rateLimitMap, api_keys, licenses, software, pending, log,
                   win, nreq, nticks>>

\* an update that also spends the key: it is left inactive.
UpdateSettles_burns ==
    /\ \E u \in pending, landed \in BOOLEAN :
         /\ pending' = pending \ {u}
         /\ api_keys' = IF landed /\ u.id \in DOMAIN api_keys
                        THEN [api_keys EXCEPT ![u.id].last_used_at = u.at,
                                              ![u.id].is_active = FALSE]
                        ELSE api_keys
    /\ UNCHANGED <<impl, script, databases, auth_uid, profiles, sessions, reseller_allocations,
                   today, fleet, revoked, prev, now, rateLimitMap, licenses, software, cur, log, win, nreq, nticks>>

\* an update of last_used_at without its filter on the id of the row.
UpdateSettles_allRows ==
    /\ \E u \in pending, landed \in BOOLEAN :
         /\ pending' = pending \ {u}
         /\ api_keys' = IF landed
                        THEN [id \in DOMAIN api_keys |->
                                [api_keys[id] EXCEPT !.last_used_at = u.at]]
                        ELSE api_keys
    /\ UNCHANGED <<impl, script, databases, auth_uid, profiles, sessions, reseller_allocations,
                   today, fleet, revoked, prev, now, rateLimitMap, licenses, software, cur, log, win, nreq, nticks>>

\* an update whose failure is thrown into the handler that issued it, as
\* with an await and no catch.
UpdateSettles_thrown ==
    /\ \E u \in pending, landed \in BOOLEAN :
         /\ pending' = pending \ {u}
         /\ api_keys' = IF landed /\ u.id \in DOMAIN api_keys
                        THEN [api_keys EXCEPT ![u.id].last_used_at = u.at]
                        ELSE api_keys
         /\ IF ~landed /\ cur.pc \in {"license", "software"}
            THEN /\ cur' = AwCaught(cur, CHOOSE e \in Errors : TRUE)
                 /\ log' = log \cup Errors
            ELSE UNCHANGED <<cur, log>>
    /\ UNCHANGED <<impl, script, databases, auth_uid, profiles, sessions, reseller_allocations,
                   today, fleet, revoked, prev, now, rateLimitMap, licenses, software, win, nreq, nticks>>

\* an update of last_used_at that was not awaited lands or fails
UpdateSettles ==
    /\ \E u \in pending, landed \in BOOLEAN :
         /\ pending' = pending \ {u}
         /\ api_keys' = IF landed /\ u.id \in DOMAIN api_keys
                        THEN [api_keys EXCEPT ![u.id].last_used_at = u.at]
                        ELSE api_keys
    /\ UNCHANGED <<impl, script, databases, auth_uid, profiles, sessions, reseller_allocations,
                   today, fleet, revoked, prev, now, rateLimitMap, licenses, software, cur, log, win, nreq, nticks>>

\* the invocation is over
Finish ==
    /\ cur.pc = "done"
    /\ cur' = Idle
    /\ UNCHANGED <<impl, script, databases, auth_uid, profiles, sessions, reseller_allocations,
                   today, fleet, revoked, prev, now, rateLimitMap, api_keys, licenses, software, pending, log,
                   win, nreq, nticks>>

\* time passes
Tick(d, max) ==
    /\ nticks < max
    /\ nticks' = nticks + 1
    /\ now' = now + d
    /\ UNCHANGED <<impl, script, databases, auth_uid, profiles, sessions, reseller_allocations,
                   today, fleet, revoked, prev, rateLimitMap, api_keys, licenses, software, cur, pending, log,
                   win, nreq>>

(***************************************************************************)
(* supabase/functions/verify-license/index.ts. A supabase-js query         *)
(* resolves to {data, error}: o = "error" is a failure reported that way,  *)
(* and a member of Errors a failure thrown.                                *)
(***************************************************************************)
\* the catch of lines 106-112
SbCaught(c, e) == Sent([c EXCEPT !.threw = e], Resp(500, INTERNAL, jsonHeaders))

\* lines 14-34: up to the first await on the database
SbReceive(r, max) ==
    /\ impl = "supabase"
    /\ Free
    /\ nreq < max
    /\ nreq' = nreq + 1
    /\ LET c0 == [Idle EXCEPT !.method = r.method, !.headers = r.headers,
                              !.raw = r.body, !.startTs = now]
           p  == JSONparse(r.body)
           a  == Field(p.value, "api_key")
           l  == Field(p.value, "license_key")
       IN  IF r.method = "OPTIONS"
           THEN /\ cur' = Sent(c0, Resp(200, JNull, corsHeaders))
                /\ UNCHANGED log
           ELSE IF p.threw
           THEN /\ cur' = SbCaught(c0, "SyntaxError")
                /\ log' = log \cup {"SyntaxError"}
           ELSE IF p.value.t = "null"
           THEN /\ cur' = SbCaught(c0, "TypeError")
                /\ log' = log \cup {"TypeError"}
           ELSE /\ UNCHANGED log
                /\ cur' =
                     IF ~Truthy(a) \/ ~Truthy(l)
                     THEN Sent(c0, Resp(400, Msg(FALSE, "Missing api_key or license_key"),
                                        jsonHeaders))
                     ELSE [c0 EXCEPT !.pc = "apikey",
                                     !.data = JObj(a, l, Field(p.value, "software_id"))]
    /\ UNCHANGED <<impl, script, databases, auth_uid, profiles, sessions, reseller_allocations,
                   today, fleet, revoked, prev, now, rateLimitMap, api_keys, licenses, software, pending,
                   win, nticks>>

\* lines 36-50
SbApiKeyLookup ==
    /\ impl = "supabase"
    /\ cur.pc = "apikey"
    /\ LET c == [cur EXCEPT !.reads = @ \cup {"api_keys"}]
           rows == ActiveApiKeys(Field(cur.data, "api_key"))
       IN  \E o \in {"ok", "error"} \cup Errors :
             IF o \in Errors
             THEN /\ log' = log \cup {o}
                  /\ cur' = SbCaught([c EXCEPT !.fault = TRUE], o)
             ELSE IF o = "error" \/ rows = {}
             THEN /\ log' = IF o = "error" THEN log \cup Errors ELSE log
                  /\ cur' = Sent([c EXCEPT !.fault = (o = "error")],
                                  Resp(401, Msg(FALSE, "Invalid or inactive API key"),
                                       jsonHeaders))
             ELSE /\ UNCHANGED log
                  /\ cur' = [c EXCEPT !.pc = "update", !.issuedAt = now,
                                      !.apiKeyRow = CHOOSE k \in rows : TRUE,
                                      !.writes = @ \cup {"api_keys"}]
    /\ UNCHANGED <<impl, script, databases, auth_uid, profiles, sessions, reseller_allocations,
                   today, fleet, revoked, prev, now, rateLimitMap, api_keys, licenses, software, pending,
                   win, nreq, nticks>>

\* lines 52-56: the awaited update of last_used_at lands, fails or throws
SbUpdate ==
    /\ impl = "supabase"
    /\ cur.pc = "update"
    /\ \E o \in {"ok", "error"} \cup Errors :
         IF o \in Errors
         THEN /\ log' = log \cup {o}
              /\ cur' = SbCaught([cur EXCEPT !.fault = TRUE], o)
              /\ UNCHANGED api_keys
         ELSE /\ UNCHANGED log
              /\ cur' = [cur EXCEPT !.pc = "license"]
              /\ api_keys' = IF o = "ok" /\ cur.apiKeyRow \in DOMAIN api_keys
                             THEN [api_keys EXCEPT ![cur.apiKeyRow].last_used_at = cur.issuedAt]
                             ELSE api_keys
    /\ UNCHANGED <<impl, script, databases, auth_uid, profiles, sessions, reseller_allocations,
                   today, fleet, revoked, prev, now, rateLimitMap, licenses, software, pending, win, nreq, nticks>>

\* lines 58-105: the license with its software row embedded
SbLicenseLookup ==
    /\ impl = "supabase"
    /\ cur.pc = "license"
    /\ LET c == [cur EXCEPT !.reads = @ \cup {"licenses", "software"}]
           rows == ActiveLicenses(Field(cur.data, "license_key"), Field(cur.data, "software_id"))
       IN  \E o \in {"ok", "error"} \cup Errors :
             IF o \in Errors
             THEN /\ log' = log \cup {o}
                  /\ cur' = SbCaught([c EXCEPT !.fault = TRUE], o)
             ELSE IF o = "error" \/ rows = {}
             THEN /\ log' = IF o = "error" THEN log \cup Errors ELSE log
                  /\ cur' = Sent([c EXCEPT !.fault = (o = "error")],
                                  Resp(200, Msg(FALSE, "License key not found or inactive"),
                                       jsonHeaders))
             ELSE LET id == CHOOSE k \in rows : TRUE
                      row == licenses[id]
                  IN  IF row.software_id \in DOMAIN software
                      THEN /\ UNCHANGED log
                           /\ cur' = Sent([c EXCEPT !.license = id],
                                          Resp(200,
                                               Valid("License key is valid",
                                                     licensePayloadSb(row, software[row.software_id])),
                                               jsonHeaders))
                      ELSE /\ log' = log \cup {"TypeError"}
                           /\ cur' = SbCaught([c EXCEPT !.license = id, !.swFailed = TRUE],
                                              "TypeError")
    /\ UNCHANGED <<impl, script, databases, auth_uid, profiles, sessions, reseller_allocations,
                   today, fleet, revoked, prev, now, rateLimitMap, api_keys, licenses, software, pending,
                   win, nreq, nticks>>

(***************************************************************************)
(* scripts/setup-appwrite.mjs lines 473-677: the Supabase function with    *)
(* rate limit, validation and response delay.                              *)
(***************************************************************************)
\* the catch of lines 668-675
VdCaught(c, e) == Delayed([c EXCEPT !.threw = e], Resp(500, INTERNAL, jsonHeaders))

\* lines 546-596
VdReceive(r, max) ==
    /\ impl = "validated"
    /\ Free
    /\ nreq < max
    /\ nreq' = nreq + 1
    /\ LET c0 == [Idle EXCEPT !.method = r.method, !.headers = r.headers,
                              !.raw = r.body, !.startTs = now]
           ip == clientIpVd(r.headers)
           rl == isRateLimited(rateLimitMap, ip, now)
           w  == Arrival(win, ip, now)
           c1 == [c0 EXCEPT !.ip = ip, !.seq = w[ip].n]
           p  == JSONparse(r.body)
           v  == validateInputVd(p.value)
       IN  IF r.method = "OPTIONS"
           THEN /\ cur' = Sent(c0, Resp(200, JNull, corsHeaders))
                /\ UNCHANGED <<rateLimitMap, win, log>>
           ELSE /\ rateLimitMap' = rl.map
                /\ win' = w
                /\ IF rl.limited
                   THEN /\ cur' = Delayed(c1, Resp(429,
                                     Msg(FALSE, "Too many requests. Please try again later."),
                                     jsonHeaders))
                        /\ UNCHANGED log
                   ELSE IF p.threw
                   THEN /\ cur' = Delayed(c1, Resp(400, Msg(FALSE, "Invalid request body"),
                                                   jsonHeaders))
                        /\ UNCHANGED log
                   ELSE IF validateInputThrows(p.value)
                   THEN /\ cur' = VdCaught(c1, "TypeError")
                        /\ log' = log \cup {"TypeError"}
                   ELSE /\ UNCHANGED log
                        /\ cur' =
                             IF ~v.valid
                             THEN Delayed(c1, Resp(400, Msg(FALSE, v.message), jsonHeaders))
                             ELSE [c1 EXCEPT !.pc = "apikey", !.data = p.value]
    /\ UNCHANGED <<impl, script, databases, auth_uid, profiles, sessions, reseller_allocations,
                   today, fleet, revoked, prev, now, api_keys, licenses, software, pending, nticks>>

\* lines 598-620
VdApiKeyLookup ==
    /\ impl = "validated"
    /\ cur.pc = "apikey"
    /\ LET c == [cur EXCEPT !.reads = @ \cup {"api_keys"}]
           rows == ActiveApiKeys(Field(cur.data, "api_key"))
       IN  \E o \in {"ok", "error"} \cup Errors :
             IF o \in Errors
             THEN /\ log' = log \cup {o}
                  /\ cur' = VdCaught([c EXCEPT !.fault = TRUE], o)
                  /\ UNCHANGED pending
             ELSE IF o = "error" \/ rows = {}
             THEN /\ log' = IF o = "error" THEN log \cup Errors ELSE log
                  /\ cur' = Delayed([c EXCEPT !.fault = (o = "error")],
                                     Resp(401, Msg(FALSE, "Invalid or inactive API key"),
                                          jsonHeaders))
                  /\ UNCHANGED pending
             ELSE LET id == CHOOSE k \in rows : TRUE
                  IN  /\ pending' = pending \cup {[id |-> id, at |-> now]}
                      /\ cur' = [c EXCEPT !.pc = "license", !.apiKeyRow = id,
                                          !.writes = @ \cup {"api_keys"}]
                      /\ UNCHANGED log
    /\ UNCHANGED <<impl, script, databases, auth_uid, profiles, sessions, reseller_allocations,
                   today, fleet, revoked, prev, now, rateLimitMap, api_keys, licenses, software, win, nreq, nticks>>

\* lines 622-667
VdLicenseLookup ==
    /\ impl = "validated"
    /\ cur.pc = "license"
    /\ LET c == [cur EXCEPT !.reads = @ \cup {"licenses", "software"}]
           rows == ActiveLicenses(Field(cur.data, "license_key"), Field(cur.data, "software_id"))
       IN  \E o \in {"ok", "error"} \cup Errors :
             IF o \in Errors
             THEN /\ log' = log \cup {o}
                  /\ cur' = VdCaught([c EXCEPT !.fault = TRUE], o)
             ELSE IF o = "error" \/ rows = {}
             THEN /\ log' = IF o = "error" THEN log \cup Errors ELSE log
                  /\ cur' = Delayed([c EXCEPT !.fault = (o = "error")],
                                     Resp(200, Msg(FALSE, "License key not found or inactive"),
                                          jsonHeaders))
             ELSE LET id == CHOOSE k \in rows : TRUE
                      row == licenses[id]
                  IN  /\ UNCHANGED log
                      /\ cur' = Delayed([c EXCEPT !.license = id],
                                        Resp(200,
                                             Valid("License key is valid",
                                                   licensePayloadVd(row, software[row.software_id])),
                                             jsonHeaders))
    /\ UNCHANGED <<impl, script, databases, auth_uid, profiles, sessions, reseller_allocations,
                   today, fleet, revoked, prev, now, rateLimitMap, api_keys, licenses, software, pending,
                   win, nreq, nticks>>

(***************************************************************************)
(* The specifications: Spec explores every request of Requests, a few at a *)
(* time; SpecBurst the Appwrite function under a burst of requests long    *)
(* enough to pass the rate limit.                                          *)
(***************************************************************************)
Deltas == {100}

BurstDeltas == {200, RATE_LIMIT_WINDOW_MS}

Next ==
    \/ \E r \in Requests : AwReceive(r, MaxRequests)
    \/ AwApiKeyLookup
    \/ AwLicenseLookup
    \/ AwSoftwareFetch
    \/ \E r \in Requests : SbReceive(r, MaxRequests)
    \/ SbApiKeyLookup
    \/ SbUpdate
    \/ SbLicenseLookup
    \/ \E r \in Requests : VdReceive(r, MaxRequests)
    \/ VdApiKeyLookup
    \/ VdLicenseLookup
    \/ TimerFires
    \/ UpdateSettles
    \/ Finish
    \/ \E d \in Deltas : Tick(d, MaxTicks)

Spec == Init /\ [][Next]_vars

InitBurst == Init /\ impl = "appwrite"

\* The burst comes from one client; another client sends a few requests.
Others(r) ==
    IF clientIp(r.headers) = IP_SEVEN \/ UNKNOWN \notin DOMAIN win THEN TRUE
    ELSE win[UNKNOWN].n < MaxOther

NextBurst ==
    \/ \E r \in BurstRequests : Others(r) /\ AwReceive(r, MaxBurst)
    \/ TimerFires
    \/ Finish
    \/ \E d \in BurstDeltas : Tick(d, MaxBurstTicks)

SpecBurst == InitBurst /\ [][NextBurst]_vars

(***************************************************************************)
(* What the claims read of a request: the answer it got or is waiting to   *)
(* send, and the body as it was sent (not as the handler parsed it).       *)
(***************************************************************************)
Answer == IF cur.pc = "done" THEN cur.resp ELSE cur.out

Answered == cur.pc = "done" /\ cur.method # "OPTIONS"

IsJson(b) == "valid" \in DOMAIN b

Sent_api_key == Field(cur.raw.v, "api_key")

Sent_license_key == Field(cur.raw.v, "license_key")

Sent_software_id == Field(cur.raw.v, "software_id")

\* C1: in one warm process, of the requests of one ip that arrive inside one
\* 60-second window, the first 30 pass the rate limiter and the 31st and every
\* later one is answered 429.
C1_ThirtyPerWindow ==
    (cur.pc \in {"delay", "done"} /\ cur.method # "OPTIONS")
        => (Answer.status = 429 <=> cur.seq > 30)

C1_Witness ==
    /\ cur.pc = "done"
    /\ cur.seq = 31
    /\ cur.resp.status = 429
    /\ \E ip \in DOMAIN win : ip # cur.ip

\* C2: every response, on the success branch and on every error branch, is
\* emitted at least 200 ms after the request started.
C2_MinimumDelay ==
    (Answered /\ impl = "appwrite") => cur.sentAt - cur.startTs >= 200

(***************************************************************************)
(* The request as the claims describe it.                                  *)
(***************************************************************************)
\* The rate limiter let the request pass.
Admitted == cur.seq <= 30

BodyIsObject == cur.raw.json /\ cur.raw.v.t = "object"

Missing(v) == v \in {Undef, JNull, JStr(<<>>)}

\* The request passed the function's validation of its body.
Validated ==
    /\ cur.raw.json
    /\ CASE impl = "appwrite" -> validateInput(parseBody(cur.raw).value).valid
         [] impl = "validated" -> /\ ~validateInputThrows(cur.raw.v)
                                  /\ validateInputVd(cur.raw.v).valid
         [] OTHER -> /\ cur.raw.v.t # "null"
                     /\ Truthy(Sent_api_key)
                     /\ Truthy(Sent_license_key)

\* api_key is the key_string of an api_keys row with is_active = true.
KeyActive ==
    \E id \in DOMAIN api_keys :
        api_keys[id].is_active /\ Sent_api_key = JStr(api_keys[id].key_string)

\* The licenses rows with is_active = true whose license_key is the request's.
LicenseRows ==
    {id \in DOMAIN licenses :
        licenses[id].is_active /\ Sent_license_key = JStr(licenses[id].license_key)}

\* The rows among them that a software_id sent along leaves.
Matching ==
    {id \in LicenseRows :
        Missing(Sent_software_id) \/ Sent_software_id = JStr(licenses[id].software_id)}

LicenseFields ==
    {"license_key", "software", "buyer_name", "buyer_email", "start_date", "end_date",
     "created_at"}

\* C3: a POST request with the key_string of an active api_keys row and the
\* license_key of an active licenses row (that the rate limiter admits, whose
\* lookups do not fail and whose software_id, if any, is the license's) is
\* answered 200, valid:true, with a license object holding license_key,
\* software (the summary or null), buyer_name, buyer_email, start_date,
\* end_date and created_at of that row.
C3_ValidLicense ==
    (/\ Answered /\ cur.method = "POST" /\ Admitted /\ ~cur.fault
     /\ BodyIsObject /\ KeyActive /\ Matching # {})
    => /\ cur.resp.status = 200
       /\ IsJson(cur.resp.body)
       /\ cur.resp.body.valid = TRUE
       /\ "license" \in DOMAIN cur.resp.body
       /\ LET l == cur.resp.body.license
              row == licenses[CHOOSE id \in Matching : TRUE]
          IN  /\ LicenseFields \subseteq DOMAIN l
              /\ l.license_key = row.license_key
              /\ l.buyer_name = row.buyer_name
              /\ l.buyer_email = row.buyer_email
              /\ l.start_date = row.start_date
              /\ l.end_date = row.end_date
              /\ l.created_at = row.created_at
              /\ \/ l.software = JNull
                 \/ /\ row.software_id \in DOMAIN software
                    /\ l.software = [id |-> row.software_id,
                                     name |-> software[row.software_id].name,
                                     version |-> software[row.software_id].version,
                                     type |-> software[row.software_id].type]

C3_Witness ==
    /\ Answered /\ impl = "appwrite" /\ KeyActive /\ Matching # {}
    /\ cur.resp.status = 200
    /\ cur.resp.body.valid
    /\ cur.resp.body.license.software # JNull
    /\ cur.sentAt > cur.startTs

\* C4: a validated request whose api_key matches no active api_keys row is
\* answered 401, valid:false, whatever its license_key is, and the licenses
\* table is not consulted for it.
C4_UnknownKey ==
    /\ "licenses" \in cur.reads => KeyActive
    /\ (Answered /\ Admitted /\ ~cur.fault /\ Validated /\ ~KeyActive)
       => /\ cur.resp.status = 401
          /\ cur.resp.body = Msg(FALSE, cur.resp.body.message)
          /\ "licenses" \notin cur.reads

C4_Witness ==
    /\ Answered /\ Validated /\ ~KeyActive /\ ~cur.fault
    /\ Sent_api_key = JStr(AK_INACTIVE)
    /\ LicenseRows # {}
    /\ cur.resp.status = 401
    /\ cur.reads = {"api_keys"}

\* C5: a request with an active API key whose license_key matches no active
\* licenses row is answered 200, valid:false; no answer is ever a 404.
C5_UnknownLicense ==
    /\ Answer.status # 404
    /\ (Answered /\ Admitted /\ ~cur.fault /\ Validated /\ KeyActive /\ LicenseRows = {})
       => /\ cur.resp.status = 200
          /\ cur.resp.body = Msg(FALSE, cur.resp.body.message)

C5_Witness ==
    /\ Answered /\ Validated /\ KeyActive /\ ~cur.fault
    /\ Sent_license_key = JStr(LK_EXPIRED)
    /\ cur.resp.status = 200
    /\ ~cur.resp.body.valid
    /\ "licenses" \in cur.reads

ApiKeyMessages ==
    {"api_key missing", "Missing api_key or license_key", "Missing or invalid api_key"}

LicenseKeyMessages ==
    {"license_key missing", "Missing api_key or license_key", "Missing or invalid license_key"}

\* C6: a request whose JSON body lacks api_key or license_key (absent, null
\* or empty) is answered 400, valid:false, with a message naming the field,
\* and no database lookup is made.
C6_MissingField ==
    (/\ cur.pc # "idle" /\ cur.method # "OPTIONS" /\ Admitted /\ BodyIsObject
     /\ (Missing(Sent_api_key) \/ Missing(Sent_license_key)))
    => /\ cur.reads = {} /\ cur.writes = {}
       /\ Answer.status = 400
       /\ ~Answer.body.valid
       /\ Answer.body.message \in
            IF Missing(Sent_api_key) THEN ApiKeyMessages ELSE LicenseKeyMessages

C6_Witness ==
    /\ Answered /\ impl = "appwrite" /\ BodyIsObject
    /\ ~Missing(Sent_api_key) /\ Sent_license_key = JNull
    /\ cur.resp.status = 400
    /\ cur.resp.body.message = "license_key missing"

OutsideAllowList(v) ==
    /\ v.t = "string"
    /\ \E i \in 1..Len(v.v) : v.v[i] \notin Upper \cup Lower \cup Digits \cup {"-"}

\* C7: a request whose api_key is longer than 128 characters, or whose
\* license_key is longer than 64, or one of whose keys has a character
\* outside [A-Za-z0-9-], is answered 400 and no database lookup is made.
C7_CapsAndPattern ==
    (/\ impl \in {"appwrite", "validated"}
     /\ cur.pc # "idle" /\ cur.method # "OPTIONS" /\ Admitted /\ BodyIsObject
     /\ \/ LongerThan(Sent_api_key, 128)
        \/ LongerThan(Sent_license_key, 64)
        \/ OutsideAllowList(Sent_api_key)
        \/ OutsideAllowList(Sent_license_key))
    => /\ cur.reads = {} /\ cur.writes = {}
       /\ Answer.status = 400

C7_Witness ==
    /\ Answered /\ impl = "appwrite"
    /\ Sent_api_key = JStr(<<"A","K","_","1">>)
    /\ Sent_license_key = JStr(LK_ACTIVE)
    /\ cur.resp.status = 400

\* C8: a request whose body is not JSON, or is JSON that is not an object,
\* is answered 400, valid:false, and no database lookup is made.
C8_MalformedBody ==
    (/\ impl = "appwrite"
     /\ cur.pc # "idle" /\ cur.method # "OPTIONS" /\ Admitted
     /\ (~cur.raw.json \/ cur.raw.v.t # "object"))
    => /\ cur.reads = {} /\ cur.writes = {}
       /\ Answer.status = 400
       /\ ~Answer.body.valid

C8_Witness ==
    /\ Answered /\ impl = "appwrite"
    /\ cur.raw = Text(JNum(5))
    /\ cur.resp.status = 400

\* C9: when the API-key lookup or the license lookup throws, the answer is
\* 500, valid:false, with the fixed message; the detail of the error is in
\* the server log and nowhere in the body.
C9_GenericError ==
    (Answered /\ cur.fault /\ cur.threw # "")
    => /\ cur.resp.status = 500
       /\ cur.resp.body = Msg(FALSE, "Internal server error")
       /\ cur.threw \in log

C9_Witness ==
    /\ Answered /\ impl = "appwrite"
    /\ cur.threw \in Errors
    /\ "licenses" \in cur.reads
    /\ cur.resp.status = 500

Secrets ==
    {licenses[id][f] : id \in DOMAIN licenses,
                       f \in {"buyer_phone", "amount", "pay_mode", "reseller_id", "created_by"}}

NoSecret(l) ==
    /\ DOMAIN l \cap {"buyer_phone", "amount", "pay_mode", "reseller_id", "created_by"} = {}
    /\ \A f \in DOMAIN l \ {"license_key", "software", "is_active"} : l[f] \notin Secrets

Minimal(b, fields) ==
    IF ~IsJson(b) THEN b = JNull
    ELSE IF "license" \in DOMAIN b
    THEN /\ DOMAIN b = {"valid", "message", "license"}
         /\ DOMAIN b.license \subseteq fields
         /\ NoSecret(b.license)
    ELSE /\ DOMAIN b = {"valid", "message"}
         /\ b.message \notin Secrets

C11_Preflight ==
    (cur.pc = "done" /\ cur.method = "OPTIONS")
    => /\ cur.resp.status = 204
       /\ cur.resp.body = JNull
       /\ corsHeaders \subseteq cur.resp.headers
       /\ cur.reads = {} /\ cur.writes = {}
       /\ cur.seq = 0 /\ cur.ip = <<>>

\* C12: when the API key and the license match and the software row of the
\* license cannot be fetched (the fetch throws, or the row is not there), the
\* answer is 200, valid:true, with the license fields and software null.
C12_SoftwareNull ==
    (Answered /\ cur.swFailed)
    => /\ cur.resp.status = 200
       /\ IsJson(cur.resp.body)
       /\ cur.resp.body.valid = TRUE
       /\ "license" \in DOMAIN cur.resp.body
       /\ LET l == cur.resp.body.license
              row == licenses[cur.license]
          IN  /\ l.software = JNull
              /\ l.license_key = row.license_key
              /\ l.buyer_name = row.buyer_name
              /\ l.buyer_email = row.buyer_email
              /\ l.start_date = row.start_date
              /\ l.end_date = row.end_date
              /\ l.created_at = row.created_at

C12_Witness ==
    /\ Answered /\ cur.swFailed /\ KeyActive /\ Matching # {}
    /\ "software" \in cur.reads
    /\ cur.resp.status = 200
    /\ cur.resp.body.license.software = JNull

\* C13: the update of last_used_at is issued only after the API-key lookup
\* found an active row, and only that row's last_used_at is ever set; it is
\* not awaited, and whether it landed, failed or is still pending, the
\* answer is the one the two lookups determine: 200, valid exactly when an
\* active license matches.
C13_FireAndForget ==
    impl \in {"appwrite", "validated"}
    => /\ "api_keys" \in cur.writes
            => /\ "api_keys" \in cur.reads
               /\ cur.apiKeyRow \in DOMAIN api_keys
               /\ Sent_api_key = JStr(api_keys[cur.apiKeyRow].key_string)
               /\ api_keys[cur.apiKeyRow].is_active
       /\ \A u \in pending : u.id \in DOMAIN api_keys /\ api_keys[u.id].is_active
       /\ \A id \in DOMAIN api_keys :
            api_keys[id].last_used_at # -1 => api_keys[id].is_active
       /\ (Answered /\ "api_keys" \in cur.writes /\ ~cur.fault)
            => /\ cur.resp.status = 200
               /\ cur.resp.body.valid = (Matching # {})

\* the answer left while the update was still pending
C13_Witness ==
    /\ impl = "appwrite" /\ Answered
    /\ "licenses" \in cur.reads
    /\ cur.resp.status = 200
    /\ cur.resp.body.valid
    /\ \E u \in pending : u.id = cur.apiKeyRow
    /\ api_keys[cur.apiKeyRow].last_used_at = -1

\* The answer of each function to a license_key that matches no active row.
NotFound ==
    CASE impl = "appwrite" ->
           Resp(200, Msg(FALSE, "License invalid or inactive"), corsHeaders)
      [] OTHER ->
           Resp(200, Msg(FALSE, "License key not found or inactive"), jsonHeaders)

\* C14: with a valid API key, the answer (status and body) to a license_key
\* that no row has is the answer to a license_key whose row is inactive:
\* both are the one fixed answer of the function, and nothing in it depends
\* on whether a row with that key exists.
C14_Indistinguishable ==
    (Answered /\ Admitted /\ ~cur.fault /\ Validated /\ KeyActive /\ LicenseRows = {})
    => /\ cur.resp.status = NotFound.status
       /\ cur.resp.body = NotFound.body
       /\ cur.resp.headers = NotFound.headers
       /\ cur.reads = {"api_keys", "licenses"} \cup
                        (IF impl = "appwrite" THEN {} ELSE {"software"})

\* the expired key, answered as the unknown key is
C14_Witness ==
    /\ Answered /\ impl = "appwrite" /\ KeyActive /\ ~cur.fault
    /\ \E id \in DOMAIN licenses :
         Sent_license_key = JStr(licenses[id].license_key) /\ ~licenses[id].is_active
    /\ cur.resp = NotFound

\* C15: with a non-empty software_id in the request the license matches
\* only if its software_id is that value (an active license of another
\* software gives 200, valid:false); with software_id absent or empty it is
\* matched on license_key and is_active alone.
C15_SoftwareFilter ==
    (Answered /\ Admitted /\ ~cur.fault /\ Validated /\ KeyActive)
    => /\ cur.resp.status = 200
       /\ cur.resp.body.valid =
            IF Missing(Sent_software_id)
            THEN LicenseRows # {}
            ELSE \E id \in LicenseRows : Sent_software_id = JStr(licenses[id].software_id)

\* an active license asked for under another software
C15_Witness ==
    /\ Answered /\ KeyActive /\ ~cur.fault /\ impl = "appwrite"
    /\ LicenseRows # {}
    /\ Sent_software_id = JStr(SW_TWO)
    /\ cur.resp.status = 200
    /\ ~cur.resp.body.valid

\* C16: no step of an invocation changes a row of licenses or of software,
\* nor a field of api_keys other than last_used_at, and last_used_at changes
\* only for the key an invocation matched and issued the update for;
\* an invocation that ends in 400, 401 or 429, or answers OPTIONS, has
\* issued no write.
C16_Frame ==
    /\ [][/\ licenses' = licenses
          /\ software' = software
          /\ DOMAIN api_keys' = DOMAIN api_keys
          /\ \A id \in DOMAIN api_keys :
               /\ [api_keys'[id] EXCEPT !.last_used_at = 0]
                    = [api_keys[id] EXCEPT !.last_used_at = 0]
               /\ api_keys'[id] # api_keys[id]
                    => \/ \E u \in pending : u.id = id
                       \/ cur.pc = "update" /\ cur.apiKeyRow = id]_vars
    /\ []((cur.pc \in {"delay", "done"}
           /\ (cur.method = "OPTIONS" \/ Answer.status \in {400, 401, 429}))
          => cur.writes = {})

\* the update of the matched key has landed, and nothing else has changed
C16_Witness ==
    /\ cur.pc = "done" /\ "api_keys" \in cur.writes
    /\ api_keys[cur.apiKeyRow].last_used_at >= 0
    /\ \A id \in DOMAIN api_keys \ {cur.apiKeyRow} : api_keys[id] = InitApiKeys[id]
    /\ licenses = InitLicenses

(***************************************************************************)
(* SpecRepeat: the Appwrite function receiving one request again and       *)
(* again, often enough to pass the rate limit; the invocation that         *)
(* finished last is kept for comparison.                                   *)
(***************************************************************************)
RepeatRequests ==
    {Req("POST", HdrFwd, Text(JObj(JStr(AK_ACTIVE), l, Undef))) :
        l \in {JStr(LK_ACTIVE), JStr(LK_EXPIRED)}}
    \cup {Req("POST", HdrFwd, Text(JObj(a, JStr(LK_ACTIVE), Undef))) :
            a \in {JStr(AK_INACTIVE), Undef}}

\* r is the request of the invocation that finished last, if there is one
Repeats(r) == prev.pc = "idle" \/ r = Req(prev.method, prev.headers, prev.raw)

\* the invocation is over, and kept
Remember ==
    /\ cur.pc = "done"
    /\ prev' = cur
    /\ cur' = Idle
    /\ UNCHANGED <<impl, script, databases, auth_uid, profiles, sessions, reseller_allocations,
                   today, fleet, revoked, now, rateLimitMap, api_keys, licenses, software, pending, log,
                   win, nreq, nticks>>

NextRepeat ==
    \/ \E r \in RepeatRequests : Repeats(r) /\ AwReceive(r, MaxBurst)
    \/ AwApiKeyLookup
    \/ AwLicenseLookup
    \/ AwSoftwareFetch
    \/ TimerFires
    \/ UpdateSettles
    \/ Remember
    \/ \E d \in BurstDeltas : Tick(d, MaxBurstTicks)

SpecRepeat == InitBurst /\ [][NextRepeat]_vars

\* the invocation in hand has the request of the one that finished last
Again ==
    /\ Answered /\ prev.pc = "done"
    /\ cur.method = prev.method /\ cur.headers = prev.headers /\ cur.raw = prev.raw

\* no database call of the invocation failed
NoFailure(c) == ~c.fault /\ ~c.swFailed

\* the database is as it was, last_used_at aside
SameDatabase ==
    /\ licenses = InitLicenses
    /\ software = InitSoftware
    /\ DOMAIN api_keys = DOMAIN InitApiKeys
    /\ \A id \in DOMAIN api_keys :
         [api_keys[id] EXCEPT !.last_used_at = -1] = InitApiKeys[id]

MaxAdminRequests == 2

AdminRequests ==
    {Req("POST", HdrFwd, Text(JObj(JStr(AK_ACTIVE), l, Undef))) :
        l \in {JStr(LK_ACTIVE), JStr(LK_EXPIRED)}}
    \cup {Req("POST", HdrFwd, Text(JObj(JStr(AK_INACTIVE), JStr(LK_ACTIVE), Undef)))}

AdminDeltas == {MIN_DELAY_MS}

\* The observer notes a revocation once: the key, and the number of the
\* request in hand if its API-key lookup has already been made (else 0).
Revoke(id) ==
    IF id \in DOMAIN revoked THEN revoked
    ELSE MapSet(revoked, id,
                [key |-> api_keys[id].key_string,
                 req |-> IF cur.pc # "idle" /\ "api_keys" \in cur.reads THEN nreq ELSE 0])

\* ApiKeysManagement.tsx: supabase.from("api_keys").delete().eq("id", id)
deleteApiKey(id) ==
    /\ id \in DOMAIN api_keys
    /\ api_keys' = [k \in DOMAIN api_keys \ {id} |-> api_keys[k]]
    /\ revoked' = Revoke(id)
    /\ UNCHANGED <<impl, script, databases, auth_uid, profiles, sessions, reseller_allocations,
                   today, fleet, prev, now, rateLimitMap, licenses, software, cur, pending, log,
                   win, nreq, nticks>>

\* UPDATE api_keys SET is_active = false WHERE id = id
deactivateApiKey(id) ==
    /\ id \in DOMAIN api_keys
    /\ api_keys[id].is_active
    /\ api_keys' = [api_keys EXCEPT ![id].is_active = FALSE]
    /\ revoked' = Revoke(id)
    /\ UNCHANGED <<impl, script, databases, auth_uid, profiles, sessions, reseller_allocations,
                   today, fleet, prev, now, rateLimitMap, licenses, software, cur, pending, log,
                   win, nreq, nticks>>

NextAdmin ==
    \/ \E r \in AdminRequests : AwReceive(r, MaxAdminRequests)
    \/ AwApiKeyLookup
    \/ AwLicenseLookup
    \/ AwSoftwareFetch
    \/ \E r \in AdminRequests : SbReceive(r, MaxAdminRequests)
    \/ SbApiKeyLookup
    \/ SbUpdate
    \/ SbLicenseLookup
    \/ \E r \in AdminRequests : VdReceive(r, MaxAdminRequests)
    \/ VdApiKeyLookup
    \/ VdLicenseLookup
    \/ TimerFires
    \/ UpdateSettles
    \/ Finish
    \/ \E d \in AdminDeltas : Tick(d, MaxTicks)
    \/ \E id \in DOMAIN InitApiKeys : deleteApiKey(id)
    \/ \E id \in DOMAIN InitApiKeys : deactivateApiKey(id)

SpecAdmin == Init /\ [][NextAdmin]_vars

\* the revocations of the key the request carries
RevokedKey == {id \in DOMAIN revoked : Sent_api_key = JStr(revoked[id].key)}

\* C18: nothing is cached between requests. A request whose API-key lookup
\* is made after its key was deactivated or deleted is answered 401; an
\* answer with valid:true to a revoked key is the answer to the request
\* whose API-key lookup had been made when the key was revoked.
C18_RecheckedEachCall ==
    /\ (Answered /\ Admitted /\ ~cur.fault /\ Validated
        /\ \E id \in RevokedKey : revoked[id].req # nreq)
       => cur.resp.status = 401
    /\ (Answered /\ IsJson(cur.resp.body) /\ cur.resp.body.valid)
       => \A id \in RevokedKey : revoked[id].req = nreq

\* the second request, after the key that served the first was revoked
C18_Witness ==
    /\ Answered /\ ~cur.fault /\ nreq = 2
    /\ Sent_api_key = JStr(AK_ACTIVE)
    /\ "k1" \in DOMAIN revoked
    /\ revoked["k1"].req = 1
    /\ cur.resp.status = 401

(***************************************************************************)
(* SpecScale: the Appwrite function on several instances. rateLimitMap is  *)
(* a module-level Map, one per process: the variable rateLimitMap (with    *)
(* its observer win) is that of the instance serving now, fleet.parked     *)
(* holds those of the other warm instances, and a process that starts      *)
(* cold evaluates 'new Map()' afresh.                                      *)
(***************************************************************************)
MaxScaleRequests == 61

Instances == {"a", "b"}

ScaleRequests == {Req("POST", HdrFwd, Text(JObj(Undef, Undef, Undef)))}

ScaleDeltas == {MIN_DELAY_MS}

\* the maps of the instances that do not serve, once i takes over
Park(i) ==
    [j \in (DOMAIN fleet.parked \ {i}) \cup ({fleet.inst} \ {i}) |->
        IF j = fleet.inst THEN [map |-> rateLimitMap, win |-> win] ELSE fleet.parked[j]]

\* Route with the map kept in a store that the instances share.
Route_shared(i) ==
    /\ Free
    /\ i \in DOMAIN fleet.parked
    /\ win' = fleet.parked[i].win
    /\ fleet' = [fleet EXCEPT !.inst = i,
                              !.parked = [j \in DOMAIN Park(i) |->
                                            [Park(i)[j] EXCEPT !.map = rateLimitMap]]]
    /\ UNCHANGED <<impl, script, databases, auth_uid, profiles, sessions, reseller_allocations,
                   today, prev, revoked, now, rateLimitMap, api_keys, licenses, software,
                   cur, pending, log, nreq, nticks>>

\* the platform sends the next requests to the warm instance i
Route(i) ==
    /\ Free
    /\ i \in DOMAIN fleet.parked
    /\ rateLimitMap' = fleet.parked[i].map
    /\ win' = fleet.parked[i].win
    /\ fleet' = [fleet EXCEPT !.inst = i, !.parked = Park(i)]
    /\ UNCHANGED <<impl, script, databases, auth_uid, profiles, sessions, reseller_allocations,
                   today, prev, revoked, now, api_keys, licenses, software,
                   cur, pending, log, nreq, nticks>>

\* a new instance i starts cold and serves
ColdStart(i) ==
    /\ Free
    /\ i # fleet.inst /\ i \notin DOMAIN fleet.parked
    /\ rateLimitMap' = <<>>
    /\ win' = <<>>
    /\ fleet' = [inst |-> i, parked |-> Park(i), cold |-> fleet.cold \cup {i}]
    /\ UNCHANGED <<impl, script, databases, auth_uid, profiles, sessions, reseller_allocations,
                   today, prev, revoked, now, api_keys, licenses, software,
                   cur, pending, log, nreq, nticks>>

NextScale ==
    \/ \E r \in ScaleRequests : AwReceive(r, MaxScaleRequests)
    \/ TimerFires
    \/ Finish
    \/ \E d \in ScaleDeltas : Tick(d, MaxBurstTicks)
    \/ \E i \in Instances : Route(i)
    \/ \E i \in Instances : ColdStart(i)

SpecScale == InitBurst /\ [][NextScale]_vars

\* C19: the rate-limit state is that of one process. An instance answers
\* 429 exactly from the 31st request of a client that it has itself
\* received in its window, whatever the other instances received; serving
\* a request changes no count of another instance; a cold start begins
\* with an empty map. So k instances admit up to 30 k requests of one
\* client in one window.
C19_PerInstance ==
    /\ []((cur.pc \in {"delay", "done"} /\ cur.method = "POST")
          => ((Answer.status = 429) <=> (cur.seq > 30)))
    /\ [][(fleet'.inst = fleet.inst /\ fleet'.cold = fleet.cold)
            => fleet'.parked = fleet.parked]_vars
    /\ [][(fleet'.inst # fleet.inst /\ fleet'.cold = fleet.cold)
            => /\ fleet'.parked[fleet.inst].map = rateLimitMap
               /\ rateLimitMap' = fleet.parked[fleet'.inst].map]_vars
    /\ [][fleet'.cold # fleet.cold => rateLimitMap' = <<>>]_vars

\* the 60th request of one client admitted within one window, 30 by each
\* of two instances
C19_Witness ==
    /\ cur.pc = "done" /\ cur.seq = 30 /\ cur.resp.status = 400
    /\ fleet.inst = "b"
    /\ "a" \in DOMAIN fleet.parked
    /\ cur.ip \in DOMAIN fleet.parked["a"].win
    /\ fleet.parked["a"].win[cur.ip].n >= 30
    /\ fleet.parked["a"].win[cur.ip].start + 60000 >= now
    /\ win[cur.ip].start + 60000 >= now
    /\ nreq >= 60

(***************************************************************************)
(* SpecLicenses: the licenses table under the dashboard's inserts and      *)
(* updates, the trigger check_license_expiry, and the passing of days.     *)
(***************************************************************************)
MaxInserts == 1

\* the days of the exploration, in order; today is an index into them
Dates == <<"2025-01-01", "2026-01-01", "2026-01-02", "2026-01-03">>

Day(d) == CHOOSE i \in 1..Len(Dates) : Dates[i] = d

\* the values of end_date: a day, or none
EndDates == {"null"} \cup {Dates[i] : i \in 1..Len(Dates)}

\* NEW.end_date IS NOT NULL AND NEW.end_date < CURRENT_DATE
Expired(row, t) == row.end_date # "null" /\ Day(row.end_date) < t

\* the trigger function, run BEFORE INSERT OR UPDATE on each row (row is
\* the row about to be written)
update_license_status(row, t) ==
    IF Expired(row, t) THEN [row EXCEPT !.is_active = FALSE] ELSE row

\* isActive of the dashboard: new Date(end_date) is midnight UTC of that
\* day and 'today' is midnight local time, so a license that ends today
\* counts as active east of Greenwich and as inactive west of it.
isActive(end_date, t, west) ==
    IF end_date = "null" THEN TRUE
    ELSE Day(end_date) > t \/ (Day(end_date) = t /\ ~west)

NewLicense(id, end_date, active) ==
    [id |-> id,
     license_key |-> <<"L","S","-","A","B","-","3">>,
     software_id |-> SW_ONE,
     buyer_name |-> "Cy",
     buyer_email |-> "cy@x",
     buyer_phone |-> "+1-555-03",
     amount |-> "1900",
     pay_mode |-> "cash",
     reseller_id |-> "reseller-7",
     created_by |-> "reseller-7",
     is_active |-> active,
     start_date |-> Dates[2],
     end_date |-> end_date,
     created_at |-> "2026-01-01T00"]

NewIds == {"l3", "l4", "l5"}

\* LicenseGeneration.tsx handleSubmit: the reseller issues a license
handleSubmit(id, end_date, west) ==
    /\ id \in NewIds \ DOMAIN licenses
    /\ Cardinality(DOMAIN licenses \cap NewIds) < MaxInserts
    /\ id = CHOOSE j \in NewIds \ DOMAIN licenses : TRUE
    /\ licenses' = MapSet(licenses, id,
                          update_license_status(
                              NewLicense(id, end_date, isActive(end_date, today, west)),
                              today))
    /\ UNCHANGED <<impl, script, databases, auth_uid, profiles, sessions, reseller_allocations,
                   prev, revoked, fleet, now, rateLimitMap, api_keys, software, cur,
                   pending, log, win, nreq, nticks, today>>

\* AdminIssuedLicensesPage.tsx handleSave: the admin edits a license,
\* end_date and is_active as entered
handleSave(id, end_date, active) ==
    /\ id \in DOMAIN licenses
    /\ licenses' = [licenses EXCEPT ![id] =
                      update_license_status([@ EXCEPT !.end_date = end_date,
                                                      !.is_active = active], today)]
    /\ UNCHANGED <<impl, script, databases, auth_uid, profiles, sessions, reseller_allocations,
                   prev, revoked, fleet, now, rateLimitMap, api_keys, software, cur,
                   pending, log, win, nreq, nticks, today>>

\* midnight passes
AdvanceDate ==
    /\ today < Len(Dates)
    /\ today' = today + 1
    /\ UNCHANGED <<impl, script, databases, auth_uid, profiles, sessions, reseller_allocations,
                   prev, revoked, fleet, now, rateLimitMap, api_keys, licenses,
                   software, cur, pending, log, win, nreq, nticks>>

NextLicenses ==
    \/ \E id \in NewIds, e \in EndDates, west \in BOOLEAN : handleSubmit(id, e, west)
    \/ \E id \in DOMAIN licenses, e \in EndDates, a \in BOOLEAN : handleSave(id, e, a)
    \/ AdvanceDate

SpecLicenses == Init /\ [][NextLicenses]_vars

\* C20: in every state of the licenses table, after any inserts, updates
\* and advances of the date, every license whose end_date is set and
\* earlier than the current date has is_active = false.
C20_ExpiredInactive ==
    \A id \in DOMAIN licenses : Expired(licenses[id], today) => ~licenses[id].is_active

(***************************************************************************)
(* SpecQuota: the licenses issued for one (reseller_id, software_id) pair  *)
(* against the license_limit of its allocation.  The reseller has two      *)
(* dashboard sessions open; each submission is cut at its awaits.          *)
(***************************************************************************)
MaxIssued == 2

MaxLimit == 4

Sessions == DOMAIN sessions

\* .from("licenses").select("*", {count: "exact"}).eq("reseller_id", ..)
\* .eq("software_id", ..)
usedCount ==
    Cardinality({id \in DOMAIN licenses :
                    /\ licenses[id].reseller_id = reseller_allocations.reseller_id
                    /\ licenses[id].software_id = reseller_allocations.software_id})

\* a row is written to licenses: the trigger runs, the row gets the next id
insert(row) ==
    /\ Cardinality(DOMAIN licenses \cap NewIds) < MaxIssued
    /\ LET id == CHOOSE j \in NewIds \ DOMAIN licenses : TRUE
       IN licenses' = MapSet(licenses, id,
                             update_license_status([row EXCEPT !.id = id], today))

\* LicenseGeneration.tsx fetchAllocations: the session loads its allocation
fetchAllocations(s) ==
    /\ sessions[s].pc = "idle"
    /\ sessions' = [sessions EXCEPT ![s].license_limit =
                                        reseller_allocations.license_limit]
    /\ UNCHANGED <<impl, script, databases, auth_uid, profiles, now, rateLimitMap, api_keys, licenses, software, cur,
                   pending, log, win, nreq, nticks, prev, revoked, fleet, today,
                   reseller_allocations, profiles, auth_uid>>

\* LicenseGeneration.tsx handleSubmit, lines 90-120: the allocation of the
\* session's state, the count read from the table, and the pre-check
checkQuota(s) ==
    /\ sessions[s].pc = "idle"
    /\ sessions' = [sessions EXCEPT ![s].pc =
                        IF usedCount >= sessions[s].license_limit
                        THEN "idle" ELSE "inserting"]
    /\ UNCHANGED <<impl, script, databases, auth_uid, profiles, now, rateLimitMap, api_keys, licenses, software, cur,
                   pending, log, win, nreq, nticks, prev, revoked, fleet, today,
                   reseller_allocations, profiles, auth_uid>>

\* LicenseGeneration.tsx handleSubmit, lines 122-172: the insert
insertLicense(s) ==
    /\ sessions[s].pc = "inserting"
    /\ insert(NewLicense("new", "null", TRUE))
    /\ sessions' = [sessions EXCEPT ![s].pc = "idle"]
    /\ UNCHANGED <<impl, script, databases, auth_uid, profiles, now, rateLimitMap, api_keys, software, cur,
                   pending, log, win, nreq, nticks, prev, revoked, fleet, today,
                   reseller_allocations, profiles, auth_uid>>

\* AdminLicenseGeneration.tsx handleSubmit: the admin issues a license in
\* the reseller's name ("no quota check for admins - unlimited")
adminHandleSubmit ==
    /\ insert([NewLicense("new", "null", TRUE) EXCEPT !.created_by = "admin-1"])
    /\ UNCHANGED <<impl, script, databases, auth_uid, profiles, now, rateLimitMap, api_keys, software, cur,
                   pending, log, win, nreq, nticks, prev, revoked, fleet, today,
                   reseller_allocations, sessions, profiles, auth_uid>>

\* AllocationsManagement.tsx handleSubmit, editing: the admin sets the limit
updateAllocation(n) ==
    /\ reseller_allocations' = [reseller_allocations EXCEPT !.license_limit = n]
    /\ UNCHANGED <<impl, script, databases, auth_uid, profiles, now, rateLimitMap, api_keys, licenses, software, cur,
                   pending, log, win, nreq, nticks, prev, revoked, fleet, today,
                   sessions, profiles, auth_uid>>

NextQuota ==
    \/ \E s \in Sessions : fetchAllocations(s)
    \/ \E s \in Sessions : checkQuota(s)
    \/ \E s \in Sessions : insertLicense(s)
    \/ adminHandleSubmit
    \/ \E n \in 0..MaxLimit : updateAllocation(n)

SpecQuota == Init /\ [][NextQuota]_vars

\* C21: after any interleaving of the reseller's submissions (two sessions
\* included), the admin's license creation in the reseller's name and the
\* admin's edits of license_limit, the number of licenses issued for the
\* (reseller_id, software_id) pair is at most the license_limit of the
\* pair's allocation.
C21_WithinLimit == usedCount <= reseller_allocations.license_limit

(***************************************************************************)
(* SpecPolicies: the row-level-security policies of profiles and licenses. *)
(* A dashboard user holds the public key of the project and their own      *)
(* session, so every request the policies admit is a request they can      *)
(* make.                                                                    *)
(***************************************************************************)
Users == {"admin-1", "reseller-7", "reseller-8"}

Roles == {"admin", "reseller"}

Statuses == {"pending", "active", "paused", "terminated"}

\* is_active_reseller without the status condition
is_active_reseller_anyStatus(user_id) ==
    /\ user_id \in DOMAIN profiles
    /\ profiles[user_id].role = "reseller"

is_admin(user_id) ==
    /\ user_id \in DOMAIN profiles
    /\ profiles[user_id].role = "admin"
    /\ profiles[user_id].status = "active"

is_active_reseller(user_id) ==
    /\ user_id \in DOMAIN profiles
    /\ profiles[user_id].role = "reseller"
    /\ profiles[user_id].status = "active"

\* "Admins can update all profiles" or "Users can update their own
\* profile"; with no WITH CHECK the USING expression also checks the new
\* row, whose id is unchanged
ProfilesUpdatePolicy(uid, id) == is_admin(uid) \/ uid = id

\* "Active resellers can create licenses" or "Admins can manage licenses"
LicensesInsertPolicy(uid, row) ==
    \/ (uid = row.created_by /\ is_active_reseller(uid))
    \/ is_admin(uid)

\* on_auth_user_created: handle_new_user inserts the profile
handle_new_user(u) ==
    /\ u \notin DOMAIN profiles
    /\ profiles' = MapSet(profiles, u, [role |-> "reseller", status |-> "pending"])
    /\ auth_uid' = u
    /\ UNCHANGED <<impl, script, databases, now, rateLimitMap, api_keys, licenses, software, cur,
                   pending, log, win, nreq, nticks, prev, revoked, fleet, today,
                   reseller_allocations, sessions>>

\* update of a row of profiles by user uid (UsersManagement.tsx
\* updateUserStatus is the admin's case, with the status alone)
updateProfile(uid, id, role, status) ==
    /\ uid \in DOMAIN profiles
    /\ id \in DOMAIN profiles
    /\ ProfilesUpdatePolicy(uid, id)
    /\ profiles' = [profiles EXCEPT ![id] = [role |-> role, status |-> status]]
    /\ auth_uid' = uid
    /\ UNCHANGED <<impl, script, databases, now, rateLimitMap, api_keys, licenses, software, cur,
                   pending, log, win, nreq, nticks, prev, revoked, fleet, today,
                   reseller_allocations, sessions>>

\* rpc make_user_admin(user_email): SECURITY DEFINER, no check of the caller
make_user_admin(uid, id) ==
    /\ uid \in DOMAIN profiles
    /\ id \in DOMAIN profiles
    /\ profiles' = [profiles EXCEPT ![id] = [role |-> "admin", status |-> "active"]]
    /\ auth_uid' = uid
    /\ UNCHANGED <<impl, script, databases, now, rateLimitMap, api_keys, licenses, software, cur,
                   pending, log, win, nreq, nticks, prev, revoked, fleet, today,
                   reseller_allocations, sessions>>

\* insert of a row into licenses by user uid
createLicense(uid, created_by) ==
    /\ uid \in DOMAIN profiles
    /\ LET row == [NewLicense("new", "null", TRUE) EXCEPT !.created_by = created_by]
       IN /\ LicensesInsertPolicy(uid, row)
          /\ insert(row)
    /\ auth_uid' = uid
    /\ UNCHANGED <<impl, script, databases, now, rateLimitMap, api_keys, software, cur,
                   pending, log, win, nreq, nticks, prev, revoked, fleet, today,
                   reseller_allocations, sessions, profiles>>

NextPolicies ==
    \/ \E u \in Users : handle_new_user(u)
    \/ \E uid \in Users, id \in Users, r \in Roles, s \in Statuses :
            updateProfile(uid, id, r, s)
    \/ \E uid \in Users, id \in Users : make_user_admin(uid, id)
    \/ \E uid \in Users, c \in Users : createLicense(uid, c)

\* the policies are those of the Supabase project
InitPolicies == Init /\ impl = "supabase"

SpecPolicies == InitPolicies /\ [][NextPolicies]_vars

\* the licenses a step inserts
Inserted == {licenses'[id] : id \in DOMAIN licenses' \ DOMAIN licenses}

\* C22: a step that inserts a license row is made by a user who, at that
\* moment, is an admin with an active profile, or is a reseller with status
\* active who sets created_by to their own id; so a reseller whose status
\* is pending, paused or terminated inserts nothing, also after the status
\* was changed.
C22_InsertByActive ==
    [][\A row \in Inserted :
          LET uid == auth_uid'
          IN /\ uid \in DOMAIN profiles
             /\ \/ profiles[uid].role = "admin" /\ profiles[uid].status = "active"
                \/ /\ profiles[uid].role = "reseller"
                   /\ profiles[uid].status = "active"
                   /\ row.created_by = uid]_vars

\* a reseller has inserted a license under their own id while another
\* reseller, paused, has none
C22_Witness ==
    /\ \E id \in DOMAIN licenses \cap NewIds :
          /\ licenses[id].created_by = auth_uid
          /\ profiles[auth_uid].role = "reseller"
    /\ \E u \in DOMAIN profiles :
          /\ u # auth_uid
          /\ profiles[u].status = "paused"
          /\ \A id \in DOMAIN licenses \cap NewIds : licenses[id].created_by # u

\* C23: a profile comes into being with role 'reseller' and status
\* 'pending', and a step that changes the role or status of a profile is
\* made by an admin (role admin, status active before the step); a user who
\* is not an admin never changes their own role or status.
C23_AdminOnly ==
    [][/\ \A u \in DOMAIN profiles' \ DOMAIN profiles :
            profiles'[u] = [role |-> "reseller", status |-> "pending"]
       /\ \A u \in DOMAIN profiles :
            profiles'[u] # profiles[u] => is_admin(auth_uid')]_vars

(***************************************************************************)
(* scripts/setup-appwrite.mjs lines 245-471: the hardened Supabase         *)
(* function, which normalises the keys before validating them.  A          *)
(* character outside ASCII is written as its code point, "U+200B".         *)
(***************************************************************************)
MaxHardenedRequests == 2

\* /[\u200B-\u200D\u2060\uFEFF]/
ZeroWidth == {"U+200B", "U+200C", "U+200D", "U+2060", "U+FEFF"}

\* /[\u2010-\u2015\u2212\uFE58\uFE63\uFF0D]/
Dashes == {"U+2010", "U+2011", "U+2012", "U+2013", "U+2014", "U+2015",
           "U+2212", "U+FE58", "U+FE63", "U+FF0D"}

\* dashes of Unicode that the expression above does not name: ARMENIAN
\* HYPHEN and TWO-EM DASH (general category Pd, no compatibility mapping)
OtherDashes == {"U+058A", "U+2E3A"}

\* \s of a JavaScript regular expression, of the characters used here
Whitespace == {" ", "\t", "\n", "U+00A0", "U+3000", "U+FEFF"}

\* String.prototype.normalize('NFKC') of one character
NFKC(c) ==
    CASE c = "U+FE58" -> "U+2014"
      [] c = "U+FE63" -> "-"
      [] c = "U+FF0D" -> "-"
      [] c = "U+2011" -> "U+2010"
      [] c = "U+00A0" -> " "
      [] c = "U+3000" -> " "
      [] OTHER -> c

\* String(raw ?? '')
StringOrEmpty(raw) == IF raw.t \in {"undefined", "null"} THEN <<>> ELSE ToStr(raw)

RECURSIVE Without(_, _)
Without(s, set) ==
    IF s = <<>> THEN <<>>
    ELSE IF Head(s) \in set THEN Without(Tail(s), set)
    ELSE <<Head(s)>> \o Without(Tail(s), set)

\* normalizeKey, lines 283-292
normalizeKey(raw) ==
    LET s1 == [i \in 1..Len(StringOrEmpty(raw)) |-> NFKC(StringOrEmpty(raw)[i])]
        s2 == Without(s1, ZeroWidth)
        s3 == [i \in 1..Len(s2) |-> IF s2[i] \in Dashes THEN "-" ELSE s2[i]]
    IN  Without(s3, Whitespace)

\* LICENSE_KEY_PATTERN = /^[A-Za-z0-9-]+$/
LICENSE_KEY_PATTERN(s) ==
    /\ Len(s) >= 1
    /\ \A i \in 1..Len(s) : s[i] \in Upper \cup Lower \cup Digits \cup {"-"}

\* API_KEY_PATTERN = /^[A-Za-z0-9._\-:=+/]+$/
API_KEY_PATTERN(s) ==
    /\ Len(s) >= 1
    /\ \A i \in 1..Len(s) :
          s[i] \in Upper \cup Lower \cup Digits \cup {".", "_", "-", ":", "=", "+", "/"}

\* validateAndNormalizeInput, lines 302-323: reading a property of null throws
validateAndNormalizeInputThrows(data) == data.t = "null"

\* the result of validateAndNormalizeInput and the request data as it
\* leaves them
validateAndNormalizeInput(data) ==
    LET api_key == normalizeKey(Field(data, "api_key"))
        license_key == normalizeKey(Field(data, "license_key"))
        sent == Field(data, "software_id")
        software_id == IF Truthy(sent) THEN JStr(normalizeKey(sent)) ELSE Undef
        res == IF api_key = <<>> THEN Bad("Missing api_key")
               ELSE IF license_key = <<>> THEN Bad("Missing license_key")
               ELSE IF Len(api_key) > MAX_API_KEY_LENGTH
               THEN Bad("api_key exceeds maximum length")
               ELSE IF Len(license_key) > MAX_LICENSE_KEY_LENGTH
               THEN Bad("license_key exceeds maximum length")
               ELSE IF Truthy(software_id) /\ Len(software_id.v) > MAX_SOFTWARE_ID_LENGTH
               THEN Bad("software_id exceeds maximum length")
               ELSE IF ~API_KEY_PATTERN(api_key) THEN Bad("Invalid api_key format")
               ELSE IF ~LICENSE_KEY_PATTERN(license_key)
               THEN Bad("Invalid license_key format")
               ELSE Ok
    IN  [valid |-> res.valid, message |-> res.message,
         data |-> IF res.valid /\ data.t = "object"
                  THEN JObj(JStr(api_key), JStr(license_key),
                            IF Truthy(software_id) THEN software_id ELSE sent)
                  ELSE data]

corsHeadersHd == corsHeaders \cup {"Access-Control-Allow-Methods"}

jsonHeadersHd == corsHeadersHd \cup {"Content-Type"}

\* the catch of lines 463-470
HdCaught(c, e) == Delayed([c EXCEPT !.threw = e], Resp(500, INTERNAL, jsonHeadersHd))

\* lines 333-392
HdReceive(r, max) ==
    /\ impl = "hardened"
    /\ Free
    /\ nreq < max
    /\ nreq' = nreq + 1
    /\ LET c0 == [Idle EXCEPT !.method = r.method, !.headers = r.headers,
                              !.raw = r.body, !.startTs = now]
           ip == clientIpVd(r.headers)
           rl == isRateLimited(rateLimitMap, ip, now)
           w  == Arrival(win, ip, now)
           c1 == [c0 EXCEPT !.ip = ip, !.seq = w[ip].n]
           p  == JSONparse(r.body)
           v  == validateAndNormalizeInput(p.value)
       IN  IF r.method = "OPTIONS"
           THEN /\ cur' = Sent(c0, Resp(204, JNull, corsHeadersHd))
                /\ UNCHANGED <<rateLimitMap, win, log>>
           ELSE IF r.method # "POST"
           THEN /\ cur' = Delayed(c0, Resp(405, Msg(FALSE, "Method not allowed"),
                                           jsonHeadersHd))
                /\ UNCHANGED <<rateLimitMap, win, log>>
           ELSE /\ rateLimitMap' = rl.map
                /\ win' = w
                /\ IF rl.limited
                   THEN /\ cur' = Delayed(c1, Resp(429,
                                     Msg(FALSE, "Too many requests. Please try again later."),
                                     jsonHeadersHd))
                        /\ UNCHANGED log
                   ELSE IF p.threw
                   THEN /\ cur' = Delayed(c1, Resp(400,
                                     Msg(FALSE, "Invalid request body. Send JSON with Content-Type: application/json"),
                                     jsonHeadersHd))
                        /\ UNCHANGED log
                   ELSE IF validateAndNormalizeInputThrows(p.value)
                   THEN /\ cur' = HdCaught(c1, "TypeError")
                        /\ log' = log \cup {"TypeError"}
                   ELSE /\ UNCHANGED log
                        /\ cur' =
                             IF ~v.valid
                             THEN Delayed(c1, Resp(400, Msg(FALSE, v.message), jsonHeadersHd))
                             ELSE [c1 EXCEPT !.pc = "apikey", !.data = v.data]
    /\ UNCHANGED <<impl, script, databases, now, api_keys, licenses, software, pending, nticks, prev,
                   revoked, fleet, today, reseller_allocations, sessions, profiles,
                   auth_uid>>

\* lines 394-416
HdApiKeyLookup ==
    /\ impl = "hardened"
    /\ cur.pc = "apikey"
    /\ LET c == [cur EXCEPT !.reads = @ \cup {"api_keys"}]
           rows == ActiveApiKeys(Field(cur.data, "api_key"))
       IN  \E o \in {"ok", "error"} \cup Errors :
             IF o \in Errors
             THEN /\ log' = log \cup {o}
                  /\ cur' = HdCaught([c EXCEPT !.fault = TRUE], o)
                  /\ UNCHANGED pending
             ELSE IF o = "error" \/ rows = {}
             THEN /\ log' = log \cup {"Invalid API key attempt"}
                  /\ cur' = Delayed([c EXCEPT !.fault = (o = "error")],
                                     Resp(401, Msg(FALSE, "Invalid or inactive API key"),
                                          jsonHeadersHd))
                  /\ UNCHANGED pending
             ELSE LET id == CHOOSE k \in rows : TRUE
                  IN  /\ pending' = pending \cup {[id |-> id, at |-> now]}
                      /\ cur' = [c EXCEPT !.pc = "license", !.apiKeyRow = id,
                                          !.writes = @ \cup {"api_keys"}]
                      /\ UNCHANGED log
    /\ UNCHANGED <<impl, script, databases, now, rateLimitMap, api_keys, licenses, software, win, nreq,
                   nticks, prev, revoked, fleet, today, reseller_allocations, sessions,
                   profiles, auth_uid>>

\* lines 418-462
HdLicenseLookup ==
    /\ impl = "hardened"
    /\ cur.pc = "license"
    /\ LET c == [cur EXCEPT !.reads = @ \cup {"licenses", "software"}]
           rows == ActiveLicenses(Field(cur.data, "license_key"), Field(cur.data, "software_id"))
       IN  \E o \in {"ok", "error"} \cup Errors :
             IF o \in Errors
             THEN /\ log' = log \cup {o}
                  /\ cur' = HdCaught([c EXCEPT !.fault = TRUE], o)
             ELSE IF o = "error" \/ rows = {}
             THEN /\ log' = log \cup {"License verification failed"}
                  /\ cur' = Delayed([c EXCEPT !.fault = (o = "error")],
                                     Resp(200, Msg(FALSE, "License key not found or inactive"),
                                          jsonHeadersHd))
             ELSE LET id == CHOOSE k \in rows : TRUE
                      row == licenses[id]
                  IN  /\ UNCHANGED log
                      /\ cur' = Delayed([c EXCEPT !.license = id],
                                        Resp(200,
                                             Valid("License key is valid",
                                                   licensePayloadVd(row, software[row.software_id])),
                                             jsonHeadersHd))
    /\ UNCHANGED <<impl, script, databases, now, rateLimitMap, api_keys, licenses, software, pending, win,
                   nreq, nticks, prev, revoked, fleet, today, reseller_allocations,
                   sessions, profiles, auth_uid>>

(***************************************************************************)
(* SpecHardened: the hardened function answers a request that carries the  *)
(* stored keys, then a request whose keys are the stored ones as a copy    *)
(* and paste may leave them.                                               *)
(***************************************************************************)
\* c put into s after its first p characters
InsertAt(s, p, c) == SubSeq(s, 1, p) \o <<c>> \o SubSeq(s, p + 1, Len(s))

\* every '-' of s written as the dash d
WithDash(s, d) == [i \in 1..Len(s) |-> IF s[i] = "-" THEN d ELSE s[i]]

\* what a copy and paste may make of a key: an invisible character or a
\* space put in front, inside or behind, or another dash for the hyphens
Pasted(key) ==
    {InsertAt(key, p, c) : p \in {0, 2, Len(key)},
                           c \in {"U+200B", "U+FEFF", " ", "U+00A0"}}
    \cup {WithDash(key, d) : d \in Dashes \cup OtherDashes}

\* the key that a pasted string stands for
Undecorated(s) ==
    LET t == Without(s, ZeroWidth \cup Whitespace)
    IN  [i \in 1..Len(t) |-> IF t[i] \in Dashes \cup OtherDashes THEN "-" ELSE t[i]]

ExactRequest == Req("POST", HdrFwd, Text(JObj(JStr(AK_ACTIVE), JStr(LK_ACTIVE), Undef)))

HardenedRequests ==
    {ExactRequest}
    \cup {Req("POST", HdrFwd, Text(JObj(JStr(a), JStr(LK_ACTIVE), Undef))) :
            a \in Pasted(AK_ACTIVE)}
    \cup {Req("POST", HdrFwd, Text(JObj(JStr(AK_ACTIVE), JStr(l), Undef))) :
            l \in Pasted(LK_ACTIVE)}
    \cup {Req(m, HdrFwd, NotJson) : m \in {"GET", "OPTIONS", "POST"}}
    \cup {Req("POST", HdrFwd, Text(JNull))}

\* the first request carries the stored keys, and a request is explored
\* when the one before it carried them and met no failure
Follows(r) ==
    IF prev.pc = "idle" THEN r = ExactRequest
    ELSE prev.raw = ExactRequest.body /\ NoFailure(prev)

InitHardened == impl = "hardened" /\ InitData

NextHardened ==
    \/ \E r \in HardenedRequests : Follows(r) /\ HdReceive(r, MaxHardenedRequests)
    \/ HdApiKeyLookup
    \/ HdLicenseLookup
    \/ TimerFires
    \/ UpdateSettles
    \/ Remember
    \/ \E d \in {MIN_DELAY_MS} : Tick(d, MaxBurstTicks)

SpecHardened == InitHardened /\ [][NextHardened]_vars

\* the request in hand carries keys that are strings
StringKeys == Sent_api_key.t = "string" /\ Sent_license_key.t = "string"

\* the request in hand carries the keys of the request before it, pasted
PastedAgain ==
    /\ prev.pc = "done" /\ prev.method = "POST" /\ cur.method = "POST"
    /\ prev.raw = ExactRequest.body
    /\ StringKeys
    /\ Undecorated(Sent_api_key.v) = AK_ACTIVE
    /\ Undecorated(Sent_license_key.v) = LK_ACTIVE
    /\ Sent_software_id = Undef

\* C24: in the hardened function, a request whose api_key or license_key
\* is a stored key with zero-width characters or whitespace put in, or
\* with Unicode dashes for its hyphens, is validated and looked up with
\* the stored key, and gets the response of the request that carries the
\* stored keys exactly.
C24_PastedKeys ==
    PastedAgain =>
        /\ cur.pc \in {"apikey", "license"} =>
              /\ Field(cur.data, "api_key") = JStr(AK_ACTIVE)
              /\ Field(cur.data, "license_key") = JStr(LK_ACTIVE)
        /\ (Answered /\ NoFailure(cur) /\ NoFailure(prev) /\ Admitted /\ SameDatabase)
              => /\ cur.resp.status = prev.resp.status
                 /\ cur.resp.body = prev.resp.body

(***************************************************************************)
(* SpecSetup: scripts/setup-appwrite.mjs and scripts/setup-collections.mjs *)
(* run against an Appwrite project, one API call at a time.  A run may be  *)
(* interrupted, a call may fail for a reason of its own, and the script    *)
(* is run again.                                                           *)
(***************************************************************************)
MaxRuns == 2

COLLECTIONS == <<"api_keys", "licenses", "software">>

\* the attribute lists of createCollections
Attributes ==
    [api_keys |-> <<"key_string", "is_active", "last_used_at", "created_at">>,
     licenses |-> <<"license_key", "software_id", "buyer_name", "buyer_email",
                    "is_active", "start_date", "end_date", "created_at">>,
     software |-> <<"name", "slug", "type", "version">>]

\* the calls of createIndexes
Indexes ==
    <<[collection |-> "api_keys", key |-> "key_string_unique", attribute |-> "key_string"],
      [collection |-> "licenses", key |-> "license_key_unique", attribute |-> "license_key"],
      [collection |-> "licenses", key |-> "software_id_index", attribute |-> "software_id"],
      [collection |-> "software", key |-> "slug_unique", attribute |-> "slug"]>>

Range(s) == {s[i] : i \in 1..Len(s)}

\* the status of an Appwrite error: the resource exists; it, or what it
\* needs, is not there; the call failed for another reason
CONFLICT == 409

NOT_FOUND == 404

BAD_REQUEST == 400

UNAVAILABLE == 503

\* the script and the other variables that a step of it leaves alone
SetupFrame ==
    UNCHANGED <<impl, now, rateLimitMap, api_keys, licenses, software, cur,
                pending, log, win, nreq, nticks, prev, revoked, fleet, today,
                reseller_allocations, sessions, profiles, auth_uid>>

\* node setup-appwrite.mjs / node setup-collections.mjs
Start(file) ==
    /\ script.pc \in {"idle", "done", "failed", "stopped"}
    /\ script.runs < MaxRuns
    /\ script' = [pc |-> IF file = "setup-appwrite" THEN "database" ELSE "collection",
                  file |-> file, c |-> 1, a |-> 1, x |-> 1,
                  runs |-> script.runs + 1, code |-> 0]
    /\ UNCHANGED databases
    /\ SetupFrame

\* the run ends in the catch of the script: 'Setup failed', exit 1
Failed(code) == [script EXCEPT !.pc = "failed", !.code = code]

\* after the collection c: the next one, or the indexes
AfterCollection ==
    IF script.c < Len(COLLECTIONS)
    THEN [script EXCEPT !.pc = "collection", !.c = @ + 1, !.a = 1]
    ELSE [script EXCEPT !.pc = "index", !.x = 1]

\* createCollection, lines 167-173: the collection exists, the attributes
\* are skipped
AlreadyThere == AfterCollection

\* setup-appwrite.mjs createDatabase, lines 90-101
createDatabase(o) ==
    /\ script.pc = "database"
    /\ IF o = "error"
       THEN script' = Failed(UNAVAILABLE) /\ UNCHANGED databases
       ELSE /\ script' = [script EXCEPT !.pc = "collection", !.c = 1]
            /\ databases' = [databases EXCEPT !.exists = TRUE]
    /\ SetupFrame

\* createCollection, the call of lines 151-157
createCollection(o) ==
    /\ script.pc = "collection"
    /\ LET id == COLLECTIONS[script.c]
       IN  IF o = "error"
           THEN script' = Failed(UNAVAILABLE) /\ UNCHANGED databases
           ELSE IF ~databases.exists
           THEN script' = Failed(NOT_FOUND) /\ UNCHANGED databases
           ELSE IF id \in DOMAIN databases.collections
           THEN script' = AlreadyThere /\ UNCHANGED databases
           ELSE /\ databases' = [databases EXCEPT !.collections =
                                   MapSet(@, id, [attributes |-> {}, indexes |-> {}])]
                /\ script' = [script EXCEPT !.pc = "attribute", !.a = 1]
    /\ SetupFrame

\* createAttribute, lines 176-209, in the loop of lines 161-165
createAttribute(o) ==
    /\ script.pc = "attribute"
    /\ LET id == COLLECTIONS[script.c]
           key == Attributes[id][script.a]
       IN  IF o = "error"
           THEN script' = Failed(UNAVAILABLE) /\ UNCHANGED databases
           ELSE /\ databases' = [databases EXCEPT !.collections[id].attributes =
                                                      @ \cup {key}]
                /\ script' = IF script.a < Len(Attributes[id])
                             THEN [script EXCEPT !.a = @ + 1]
                             ELSE AfterCollection
    /\ SetupFrame

\* createIndex, lines 223-240, called by createIndexes
createIndex(o) ==
    /\ script.pc = "index"
    /\ LET ix == Indexes[script.x]
           next == IF script.x < Len(Indexes)
                   THEN [script EXCEPT !.x = @ + 1]
                   ELSE [script EXCEPT !.pc = "done"]
       IN  IF o = "error"
           THEN script' = Failed(UNAVAILABLE) /\ UNCHANGED databases
           ELSE IF ix.collection \notin DOMAIN databases.collections
           THEN script' = Failed(NOT_FOUND) /\ UNCHANGED databases
           ELSE IF ix.key \in databases.collections[ix.collection].indexes
           THEN script' = next /\ UNCHANGED databases
           ELSE IF ix.attribute \notin databases.collections[ix.collection].attributes
           THEN script' = Failed(BAD_REQUEST) /\ UNCHANGED databases
           ELSE /\ databases' = [databases EXCEPT !.collections[ix.collection].indexes =
                                                      @ \cup {ix.key}]
                /\ script' = next
    /\ SetupFrame

\* the process is stopped between two calls
Interrupt ==
    /\ script.pc \in {"database", "collection", "attribute", "index"}
    /\ script' = [script EXCEPT !.pc = "stopped"]
    /\ UNCHANGED databases
    /\ SetupFrame

NextSetup ==
    \/ \E f \in {"setup-appwrite", "setup-collections"} : Start(f)
    \/ \E o \in {"ok", "error"} : createDatabase(o)
    \/ \E o \in {"ok", "error"} : createCollection(o)
    \/ \E o \in {"ok", "error"} : createAttribute(o)
    \/ \E o \in {"ok", "error"} : createIndex(o)
    \/ Interrupt

SpecSetup == Init /\ [][NextSetup]_vars

\* every collection is there with the attributes and the indexes listed
Complete ==
    \A i \in 1..Len(COLLECTIONS) :
        LET id == COLLECTIONS[i]
        IN  /\ id \in DOMAIN databases.collections
            /\ Range(Attributes[id]) \subseteq databases.collections[id].attributes
            /\ {Indexes[x].key : x \in {y \in 1..Len(Indexes) : Indexes[y].collection = id}}
                   \subseteq databases.collections[id].indexes

\* C25: run again, also after a run that stopped part-way, the script
\* never fails because a resource exists already, and a run that ends with
\* the success message leaves every collection with all of its listed
\* attributes and indexes.
C25_Rerunnable ==
    /\ script.pc = "failed" => script.code # CONFLICT
    /\ script.pc = "done" => Complete

(***************************************************************************)
(* The window of the rate limiter, read off the Map.                       *)
(***************************************************************************)
\* the step receives a request of ip that the limiter counts
Arrives(ip) == nreq' = nreq + 1 /\ cur'.method # "OPTIONS" /\ cur'.ip = ip

\* the answer that the invocation has after the step
AnswerAfter == IF cur'.pc = "done" THEN cur'.resp ELSE cur'.out

\* C26: the window of an ip is fixed.  It starts at the ip's first request
\* and ends 60,000 ms later, whatever arrives in between: a request at or
\* before the end is counted in the window and leaves the end where it is,
\* and the first request strictly after the end is admitted and starts a
\* window with count 1, whatever the count was.
C26_FixedWindow ==
    [][\A ip \in DOMAIN rateLimitMap' :
          IF ip \notin DOMAIN rateLimitMap \/
             (Arrives(ip) /\ ip \in DOMAIN rateLimitMap /\ now > rateLimitMap[ip].resetTime)
          THEN /\ Arrives(ip)
               /\ rateLimitMap'[ip] = [count |-> 1,
                                       resetTime |-> now + RATE_LIMIT_WINDOW_MS]
               /\ AnswerAfter.status # 429
          ELSE /\ rateLimitMap'[ip].resetTime = rateLimitMap[ip].resetTime
               /\ rateLimitMap'[ip].count =
                    rateLimitMap[ip].count + (IF Arrives(ip) THEN 1 ELSE 0)]_vars

\* a window that ended with a request rejected, and the request after its
\* end, admitted, with count 1
C26_Witness ==
    /\ nreq > MAX_REQUESTS_PER_WINDOW + 1
    /\ cur.pc # "idle"
    /\ cur.ip \in DOMAIN rateLimitMap
    /\ rateLimitMap[cur.ip] = [count |-> 1, resetTime |-> now + RATE_LIMIT_WINDOW_MS]
    /\ now > RATE_LIMIT_WINDOW_MS
    /\ Answer.status # 429
    /\ DOMAIN win = {cur.ip}

(***************************************************************************)
(* The stored is_active against end_date, at the writes of SpecLicenses.   *)
(***************************************************************************)
\* the licenses whose end_date the step sets: the rows it inserts and the
\* rows whose end_date differs afterwards
EndDateWritten ==
    {id \in DOMAIN licenses' :
        IF id \in DOMAIN licenses
        THEN licenses'[id].end_date # licenses[id].end_date
        ELSE TRUE}

\* C27: after any insert or update of a license that sets or changes
\* end_date, the stored is_active equals (end_date is null or end_date is
\* not before the current date): an expired license moved to a future date
\* becomes active again, one moved to the past becomes inactive.
C27_Recomputed ==
    [][\A id \in EndDateWritten :
          licenses'[id].is_active = ~Expired(licenses'[id], today')]_vars

(***************************************************************************)
(* SpecOrder: one client repeating a request through a window of the rate  *)
(* limiter, the request being one the handler would answer from the        *)
(* database, one it would reject on validation, or one that is not JSON.   *)
(***************************************************************************)
OrderRequests == RepeatRequests \cup {Req("POST", HdrFwd, NotJson)}

NextOrder ==
    \/ \E r \in OrderRequests : Repeats(r) /\ AwReceive(r, MaxBurst)
    \/ AwApiKeyLookup
    \/ AwLicenseLookup
    \/ AwSoftwareFetch
    \/ TimerFires
    \/ UpdateSettles
    \/ Remember
    \/ \E d \in BurstDeltas : Tick(d, MaxBurstTicks)

SpecOrder == InitBurst /\ [][NextOrder]_vars

\* C28: the rate-limit check runs before body parsing, input validation and
\* any database access.  Every request that is not OPTIONS is counted
\* against its ip, whatever its body; the one past the limit is answered
\* 429 also when its body is invalid or not JSON; and a request answered
\* 429 has had no body parsed and no table read or written.
C28_LimitFirst ==
    (cur.pc # "idle" /\ cur.method # "OPTIONS") =>
        /\ cur.ip \in DOMAIN rateLimitMap
        /\ rateLimitMap[cur.ip].count = win[cur.ip].n
        /\ cur.seq > MAX_REQUESTS_PER_WINDOW => Answer.status = 429
        /\ Answer.status = 429 =>
              /\ cur.data = Undef
              /\ cur.reads = {}
              /\ cur.writes = {}

\* the 31st request of a window with a body that fails validation, after
\* thirty answered 400, is answered 429
C28_Witness ==
    /\ cur.pc = "done"
    /\ cur.seq = MAX_REQUESTS_PER_WINDOW + 1
    /\ ~Validated
    /\ cur.resp.status = 429
    /\ prev.seq = MAX_REQUESTS_PER_WINDOW
    /\ prev.resp.status = 400

(***************************************************************************)
(* SpecExpiry: the Appwrite function answering verification requests while *)
(* the dashboard writes to licenses and the days pass.  The dashboard and   *)
(* midnight act between two requests, and one license is followed.         *)
(***************************************************************************)
MaxExpiryRequests == 1

\* the key of the license that the generation form issues
LK_ISSUED == NewLicense("l3", "null", TRUE).license_key

ExpiryRequests ==
    {Req("POST", HdrFwd, Text(JObj(JStr(AK_ACTIVE), JStr(l), Undef))) :
        l \in {LK_ACTIVE, LK_EXPIRED, LK_ISSUED}}

\* the licenses that are not as they were at the start
Touched ==
    {id \in DOMAIN licenses :
        IF id \in DOMAIN InitLicenses THEN licenses[id] # InitLicenses[id] ELSE TRUE}

\* the dashboard works on license id, and on no other
Follow(id) == Free /\ Touched \subseteq {id}

NextExpiry ==
    \/ \E id \in NewIds, e \in EndDates, west \in BOOLEAN :
          Follow(id) /\ handleSubmit(id, e, west)
    \/ \E id \in DOMAIN licenses, e \in EndDates, a \in BOOLEAN :
          Follow(id) /\ handleSave(id, e, a)
    \/ Free /\ AdvanceDate
    \/ \E r \in ExpiryRequests : AwReceive(r, MaxExpiryRequests)
    \/ AwApiKeyLookup
    \/ AwLicenseLookup
    \/ AwSoftwareFetch
    \/ TimerFires
    \/ UpdateSettles
    \/ Finish
    \/ Tick(MIN_DELAY_MS, MaxBurstTicks)

SpecExpiry == InitBurst /\ [][NextExpiry]_vars

\* C29: the verification endpoint never returns valid:true for a license
\* whose end_date is earlier than the current date, in any state reachable
\* by license inserts, license updates, advances of the current date and
\* verification requests.
C29_NeverValidExpired ==
    (cur.pc = "done" /\ IsJson(cur.resp.body) /\ cur.resp.body.valid) =>
        LET e == cur.resp.body.license.end_date
        IN  e = "null" \/ Day(e) >= today

(***************************************************************************)
(* SpecGenerated: keys made by the dashboard, stored, and sent to the      *)
(* function.  Math.random is the draw: the generators are functions of the *)
(* indexes drawn.                                                          *)
(***************************************************************************)
MaxGeneratedRequests == 1

\* ApiKeysManagement.tsx line 52: the 62 characters a key is drawn from
ApiKeyChars ==
    <<"A","B","C","D","E","F","G","H","I","J","K","L","M",
      "N","O","P","Q","R","S","T","U","V","W","X","Y","Z",
      "a","b","c","d","e","f","g","h","i","j","k","l","m",
      "n","o","p","q","r","s","t","u","v","w","x","y","z",
      "0","1","2","3","4","5","6","7","8","9">>

\* LicenseGeneration.tsx line 80: the 36 characters of a license key
LicenseKeyChars ==
    <<"A","B","C","D","E","F","G","H","I","J","K","L","M",
      "N","O","P","Q","R","S","T","U","V","W","X","Y","Z",
      "0","1","2","3","4","5","6","7","8","9">>

\* `${prefix}_${Array.from({length: 32}, ...).join("")}` with prefix "LS";
\* draw[i] is Math.floor(Math.random() * 62) + 1 of the i-th character
generateApiKey(draw) ==
    <<"L","S","_">> \o [i \in 1..32 |-> ApiKeyChars[draw[i]]]

\* `LS-${key}`, key the segments of 2, 4 and 4 characters joined by "-"
generateLicenseKey(draw) ==
    LET segment(from, length) == [i \in 1..length |-> LicenseKeyChars[draw[from + i - 1]]]
    IN  <<"L","S","-">> \o segment(1, 2) \o <<"-">> \o segment(3, 4)
                        \o <<"-">> \o segment(7, 4)

\* the draws explored: one character throughout (the first, one of the
\* middle and the last of the alphabet) and a walk over the alphabet
ApiKeyDraws ==
    {[i \in 1..32 |-> d] : d \in {1, 27, 62}} \cup {[i \in 1..32 |-> ((7 * i) % 62) + 1]}

LicenseKeyDraws ==
    {[i \in 1..10 |-> d] : d \in {1, 36}} \cup {[i \in 1..10 |-> ((7 * i) % 36) + 1]}

\* ApiKeysManagement.tsx handleCreateKey: a key is generated and stored;
\* is_active is the column's default, true
handleCreateKey(draw) ==
    /\ DOMAIN api_keys = DOMAIN InitApiKeys
    /\ api_keys' = MapSet(api_keys, "k3",
                          [id |-> "k3", key_string |-> generateApiKey(draw),
                           is_active |-> TRUE, last_used_at |-> -1])
    /\ UNCHANGED <<impl, script, databases, auth_uid, profiles, sessions, reseller_allocations,
                   prev, revoked, fleet, now, rateLimitMap, licenses, software, cur,
                   pending, log, win, nreq, nticks, today>>

\* LicenseGeneration.tsx handleSubmit, with the key it generates
issueLicense(draw) ==
    /\ DOMAIN licenses = DOMAIN InitLicenses
    /\ licenses' = MapSet(licenses, "l3",
                          update_license_status(
                              [NewLicense("l3", "null", isActive("null", today, FALSE))
                                 EXCEPT !.license_key = generateLicenseKey(draw)],
                              today))
    /\ UNCHANGED <<impl, script, databases, auth_uid, profiles, sessions, reseller_allocations,
                   prev, revoked, fleet, now, rateLimitMap, api_keys, software, cur,
                   pending, log, win, nreq, nticks, today>>

\* the rows that the dashboard added
GeneratedApiKeys == DOMAIN api_keys \ DOMAIN InitApiKeys

GeneratedLicenses == DOMAIN licenses \ DOMAIN InitLicenses

\* a client sends a generated license key with an active API key: the one
\* generated, or the one that was there
GeneratedRequests ==
    {Req("POST", HdrFwd, Text(JObj(JStr(api_keys[k].key_string),
                                   JStr(licenses[l].license_key), Undef))) :
        k \in {k \in DOMAIN api_keys : api_keys[k].is_active}, l \in GeneratedLicenses}

InitGenerated == impl \in {"appwrite", "hardened"} /\ InitData

NextGenerated ==
    \/ \E draw \in ApiKeyDraws : handleCreateKey(draw)
    \/ \E draw \in LicenseKeyDraws : issueLicense(draw)
    \/ \E r \in GeneratedRequests : AwReceive(r, MaxGeneratedRequests)
    \/ AwApiKeyLookup
    \/ AwLicenseLookup
    \/ AwSoftwareFetch
    \/ \E r \in GeneratedRequests : HdReceive(r, MaxGeneratedRequests)
    \/ HdApiKeyLookup
    \/ HdLicenseLookup
    \/ TimerFires
    \/ UpdateSettles
    \/ Finish
    \/ Tick(MIN_DELAY_MS, MaxBurstTicks)

SpecGenerated == InitGenerated /\ [][NextGenerated]_vars

\* the request in hand carries a generated API key and a generated license
\* key, both stored and active
FreshKeys ==
    /\ cur.pc # "idle"
    /\ \E k \in GeneratedApiKeys :
          api_keys[k].is_active /\ Sent_api_key = JStr(api_keys[k].key_string)
    /\ \E l \in GeneratedLicenses :
          licenses[l].is_active /\ Sent_license_key = JStr(licenses[l].license_key)

\* C30: every API key produced by generateApiKey and every license key
\* produced by generateLicenseKey passes the function's input validation
\* (the length caps and the character pattern): a request carrying a
\* freshly generated, active API key and license key is never answered 400.
C30_GeneratedKeysPass == FreshKeys => Answer.status # 400

=============================================================================
